---- MODULE Spec2Model ----
(***************************************************************************)
(* StockTool: the plugin runtime of the host window (src/stocktool.py).    *)
(*                                                                         *)
(* The host discovers plugin units in the modules directory, instantiates  *)
(* the ones listed in settings.json, lets the user toggle them, and after  *)
(* every fetch hands the dataset to the active instances.  All of it runs  *)
(* on the UI thread, one handler at a time, so every handler is one atomic *)
(* action.  Plugin code is the environment: whether a unit loads, and      *)
(* whether a constructor or a callback raises, is chosen freely.           *)
(***************************************************************************)
EXTENDS Integers, Sequences, FiniteSets, TLC

VARIABLES
    dir,             \* os.listdir(MODULES_DIR): the units, in listing order
    disk,            \* the content of settings.json
    pc,              \* "off": no StockTool object yet, "running": constructed
    settings,        \* self.settings (a dict)
    module_specs,    \* self.module_specs: id -> [name, desc, factory]
    loaded_modules,  \* self.loaded_modules: the keys, in insertion order
    modules_vbox,    \* the plugin widgets held by self.modules_vbox
    data_by_symbol,  \* self.data_by_symbol: symbol -> rows
    tickers,         \* self.tickers
    status,          \* the text of the status label
    op,              \* the handler that ran last, with its arguments
    calls,           \* the plugin code it called, in call order
    printed,         \* what it printed
    httpCalls,       \* the symbols it issued an HTTP request for
    escaped,         \* TRUE when an exception left the handler
    input,           \* what the last on_fetch was given
    request,         \* LiveTracker: the symbol and the provider's answers of a cycle
    reply,           \* LiveTracker: what _fetch_prices_combo made of them
    plugin,          \* the MODULE_ID of the plugin instance looked at on its own
    tracker,         \* the LivePriceTrackerModule instance
    news,            \* the NewsTickerModule instance
    workers,         \* the refresh threads that run
    queue,           \* the signals posted to the UI thread and not delivered yet
    started,         \* the number of refresh threads started so far
    clock,           \* time.time()
    event,           \* the step taken last
    history          \* what the deliveries brought, per symbol

vars == <<dir, disk, pc, settings, module_specs, loaded_modules, modules_vbox,
          data_by_symbol, tickers, status, op, calls, printed, httpCalls,
          escaped, input, request, reply, plugin, tracker, news, workers,
          queue, started, clock, event, history>>

hostVars == <<dir, disk, pc, settings, module_specs, loaded_modules, modules_vbox,
              data_by_symbol, tickers, status, op, calls, printed, httpCalls,
              escaped, input>>
quoteVars == <<request, reply>>
pluginVars == <<plugin, tracker, news, workers, queue, started, clock, event, history>>

(***************************************************************************)
(* Bounds                                                                  *)
(***************************************************************************)
MaxUnits == 3        \* files in the modules directory (discovery runs)
MaxPersisted == 3    \* length of enabled_modules in a settings.json found at start
MaxGets == 4         \* answers of the provider to the GETs of one url
MaxBars == 3         \* 1-minute bars in one answer
MaxCycles == 2       \* refresh threads a plugin instance starts
MaxWords == 3        \* words of a headline
MaxRounds == 3       \* refresh cycles of a ticker whose feeds carry two symbols
MaxCalls == 3        \* on_data calls to a Winner / Loser counter

(***************************************************************************)
(* Python values                                                           *)
(***************************************************************************)
None == "None"
Undefined == "<not defined by the class>"
EmptyDict == [k \in {} |-> None]

Truthy(v) == v # None /\ v # ""

\* dict.get(key, default)
Get(d, key, default) == IF key \in DOMAIN d THEN d[key] ELSE default

\* d[key] = value on a dict
DictSet(d, key, value) ==
    [k \in DOMAIN d \cup {key} |-> IF k = key THEN value ELSE d[k]]

Range(s) == {s[i] : i \in DOMAIN s}

\* str ordering of the ids that occur, as sorted() sees them
IdsAscending == <<"base", "ghost", "p1", "p2", "p3">>
Rank(id) == CHOOSE i \in DOMAIN IdsAscending : IdsAscending[i] = id

RECURSIVE Sorted(_)
Sorted(S) ==
    IF S = {} THEN <<>>
    ELSE LET m == CHOOSE x \in S : \A y \in S : Rank(x) <= Rank(y)
         IN  <<m>> \o Sorted(S \ {m})

\* the sequence s without its last occurrence of x
RECURSIVE RemoveLast(_, _)
RemoveLast(s, x) ==
    IF s = <<>> THEN <<>>
    ELSE IF s[Len(s)] = x THEN SubSeq(s, 1, Len(s) - 1)
    ELSE Append(RemoveLast(SubSeq(s, 1, Len(s) - 1), x), s[Len(s)])

Count(s, x) == Cardinality({i \in DOMAIN s : s[i] = x})

(***************************************************************************)
(* plugin_api.BaseModule and the units of the modules directory            *)
(***************************************************************************)
BaseModule ==
    [MODULE_ID |-> "base", MODULE_NAME |-> "Base Module", MODULE_DESC |-> "Base module"]

\* getattr(temp, attr, ...) on an instance of a subclass of BaseModule
GetAttr(cls, attr) == IF cls[attr] = Undefined THEN BaseModule[attr] ELSE cls[attr]

\* a class that subclasses BaseModule
PluginClass(cname, id, name, ctor) ==
    [kind |-> "plugin", cls |-> cname, MODULE_ID |-> id, MODULE_NAME |-> name,
     MODULE_DESC |-> Undefined, ctor_ok |-> ctor]
\* any other attribute of the module: a function, an import, BaseModule itself
OtherExport(cname) ==
    [kind |-> "other", cls |-> cname, MODULE_ID |-> Undefined,
     MODULE_NAME |-> Undefined, MODULE_DESC |-> Undefined, ctor_ok |-> TRUE]
NoClass ==
    [kind |-> "none", cls |-> None, MODULE_ID |-> Undefined,
     MODULE_NAME |-> Undefined, MODULE_DESC |-> Undefined, ctor_ok |-> TRUE]

\* a file of the directory: load is what importing it does, exports is dir(mod)
Unit(fname, load, exports) == [fname |-> fname, load |-> load, exports |-> exports]

UnitAlpha   == Unit("a.py", "ok", <<OtherExport("BaseModule"), PluginClass("Alpha", "p1", "Alpha", TRUE)>>)
UnitBeta    == Unit("b.py", "ok", <<PluginClass("Beta", "p2", "beta", TRUE), OtherExport("helper")>>)
UnitGamma   == Unit("g.py", "ok", <<PluginClass("Gamma", "p3", "Gamma", TRUE)>>)
UnitThrows  == Unit("c.py", "throws", <<>>)
UnitNoType  == Unit("d.py", "ok", <<OtherExport("BaseModule"), OtherExport("helper")>>)
UnitTwo     == Unit("e.py", "ok", <<PluginClass("First", "p3", "Two", TRUE), PluginClass("Second", "p1", "Two", TRUE)>>)
UnitInherit == Unit("f.py", "ok", <<PluginClass("Bare", Undefined, Undefined, TRUE)>>)
UnitCtor    == Unit("h.py", "ok", <<PluginClass("Broken", "p2", "Broken", FALSE)>>)
UnitNoName  == Unit("k.py", "ok", <<PluginClass("Anon", "p2", "", TRUE)>>)
UnitNoId    == Unit("m.py", "ok", <<PluginClass("Idless", None, "Idless", TRUE)>>)
UnitSameId  == Unit("l.py", "ok", <<PluginClass("Other", "p1", "Other", TRUE)>>)
UnitPrivate == Unit("_x.py", "ok", <<PluginClass("Hidden", "p2", "Hidden", TRUE)>>)
UnitText    == Unit("notes.txt", "ok", <<>>)
UnitNoSpec  == Unit("n.py", "nospec", <<>>)

Units == {UnitAlpha, UnitBeta, UnitGamma, UnitThrows, UnitNoType, UnitTwo,
          UnitInherit, UnitCtor, UnitNoName, UnitNoId, UnitSameId, UnitPrivate,
          UnitText, UnitNoSpec}

EndsWithPy(fname) == fname # "notes.txt"
StartsWithUnderscore(fname) == fname = "_x.py"

\* listings of at most n distinct files
Listings(n) ==
    UNION {{s \in [1..k -> Units] : \A i, j \in 1..k : i # j => s[i].fname # s[j].fname}
           : k \in 0..n}

(***************************************************************************)
(* The record w holds the host object and its surroundings while a handler *)
(* runs: the fields are the variables of the same name.  A handler is an   *)
(* operator from w, and the values its environment supplies, to the w it   *)
(* leaves behind.  Once w.escaped is set, an exception is travelling up    *)
(* and the statements that follow are skipped.                             *)
(***************************************************************************)
Call(cb, id, raised, arg) == [cb |-> cb, id |-> id, raised |-> raised, arg |-> arg]
Line(tag, what) == [tag |-> tag, what |-> what]

Said(w, tag, what) == [w EXCEPT !.printed = Append(@, Line(tag, what))]
Called(w, cb, id, raised, arg) == [w EXCEPT !.calls = Append(@, Call(cb, id, raised, arg))]

(***************************************************************************)
(* Settings                                                                *)
(***************************************************************************)
\* locked: the path cannot be opened for writing (a directory, a read-only file)
File(kind, doc) == [kind |-> kind, doc |-> doc, locked |-> FALSE]
Locked(file) == [file EXCEPT !.locked = TRUE]
NoFile == File("absent", EmptyDict)
BadFile == File("corrupt", EmptyDict)
JsonFile(doc) == File("json", doc)
EnabledDoc(ids) == [k \in {"enabled_modules"} |-> ids]

load_settings(file) ==
    IF file.kind = "absent" THEN EnabledDoc(<<>>)
    ELSE IF file.kind = "corrupt" THEN EnabledDoc(<<>>)
    ELSE file.doc

\* json.dump into settings.json; file is what is there.  On a path that cannot
\* be opened for writing open() raises: the except clause swallows it and the
\* file stays as it was
save_settings(file, data) == IF file.locked THEN file ELSE JsonFile(data)

enabled_modules(w) == Get(w.settings, "enabled_modules", <<>>)

(***************************************************************************)
(* Discovery                                                               *)
(***************************************************************************)
\* the first attribute in dir(mod) order that is a strict subclass of BaseModule
RECURSIVE FirstQualifying(_, _)
FirstQualifying(exports, i) ==
    IF i > Len(exports) THEN NoClass
    ELSE IF exports[i].kind = "plugin" THEN exports[i]
    ELSE FirstQualifying(exports, i + 1)

\* what the try block does once the unit is imported
RegisterUnit(w, u) ==
    LET module_class == FirstQualifying(u.exports, 1)
    IN  IF module_class.kind = "none" THEN w
        ELSE IF ~module_class.ctor_ok
        THEN Said(Called(w, "temp", u.fname, TRUE, <<>>), "Module load error", u.fname)
        ELSE LET w1     == Called(w, "temp", u.fname, FALSE, <<>>)
                 m_id   == GetAttr(module_class, "MODULE_ID")
                 m_name == GetAttr(module_class, "MODULE_NAME")
                 m_desc == GetAttr(module_class, "MODULE_DESC")
             IN  IF ~Truthy(m_id) \/ ~Truthy(m_name) THEN w1
                 ELSE [w1 EXCEPT !.module_specs =
                          DictSet(@, m_id, [name |-> m_name, desc |-> m_desc,
                                            factory |-> <<u.fname, module_class.cls>>])]

\* DiscoverUnit without the try block: a unit that throws ends the scan
DiscoverUnitUnguarded(w, u) ==
    IF ~EndsWithPy(u.fname) \/ StartsWithUnderscore(u.fname) THEN w
    ELSE IF u.load = "nospec" THEN w
    ELSE IF u.load = "throws" THEN [w EXCEPT !.escaped = TRUE]
    ELSE LET w1 == RegisterUnit(w, u)
         IN  IF w1.printed # w.printed THEN [w EXCEPT !.calls = w1.calls, !.escaped = TRUE]
             ELSE w1

\* one round of the loop over os.listdir
DiscoverUnit(w, u) ==
    IF ~EndsWithPy(u.fname) \/ StartsWithUnderscore(u.fname) THEN w
    ELSE IF u.load = "nospec" THEN w
    ELSE IF u.load = "throws" THEN Said(w, "Module load error", u.fname)
    ELSE RegisterUnit(w, u)

RECURSIVE DiscoverFrom(_, _, _)
DiscoverFrom(w, listing, i) ==
    IF i > Len(listing) \/ w.escaped THEN w
    ELSE DiscoverFrom(DiscoverUnit(w, listing[i]), listing, i + 1)

discover_modules(w) == DiscoverFrom(w, w.dir, 1)

(***************************************************************************)
(* Instances                                                               *)
(***************************************************************************)
Outcomes == {"ok", "ctor_raises", "on_enable_raises", "on_data_raises", "on_disable_raises"}

HasData(w) == DOMAIN w.data_by_symbol # {}
Dataset(w) == <<w.data_by_symbol, w.tickers>>

\* self.loaded_modules[module_id] = instance
Keep(keys, k) == IF k \in Range(keys) THEN keys ELSE Append(keys, k)
\* self.loaded_modules.pop(module_id, None)
Pop(keys, k) == SelectSeq(keys, LAMBDA x : x # k)

\* Construct without the replay of the dataset to the new instance
ConstructWithoutReplay(w, module_id, outcome) ==
    IF outcome = "ctor_raises"
    THEN Said(Called(w, "__init__", module_id, TRUE, <<>>), "Module instantiate error", module_id)
    ELSE LET w1 == [Called(w, "__init__", module_id, FALSE, <<>>) EXCEPT
                        !.loaded_modules = Keep(@, module_id),
                        !.modules_vbox = Append(@, module_id)]
         IN  IF outcome = "on_enable_raises"
             THEN Said(Called(w1, "on_enable", module_id, TRUE, <<>>),
                       "Module instantiate error", module_id)
             ELSE Called(w1, "on_enable", module_id, FALSE, <<>>)

\* Construct without the try block: what plugin code raises goes up to the caller
ConstructUnguarded(w, module_id, outcome) ==
    IF outcome = "ctor_raises"
    THEN [Called(w, "__init__", module_id, TRUE, <<>>) EXCEPT !.escaped = TRUE]
    ELSE LET w1 == [Called(w, "__init__", module_id, FALSE, <<>>) EXCEPT
                        !.loaded_modules = Keep(@, module_id),
                        !.modules_vbox = Append(@, module_id)]
         IN  IF outcome = "on_enable_raises"
             THEN [Called(w1, "on_enable", module_id, TRUE, <<>>) EXCEPT !.escaped = TRUE]
             ELSE LET w2 == Called(w1, "on_enable", module_id, FALSE, <<>>)
                  IN  IF ~HasData(w2) THEN w2
                      ELSE IF outcome = "on_data_raises"
                      THEN [Called(w2, "on_data", module_id, TRUE, Dataset(w2)) EXCEPT !.escaped = TRUE]
                      ELSE Called(w2, "on_data", module_id, FALSE, Dataset(w2))

\* the try block of _instantiate_module
Construct(w, module_id, outcome) ==
    IF outcome = "ctor_raises"
    THEN Said(Called(w, "__init__", module_id, TRUE, <<>>), "Module instantiate error", module_id)
    ELSE LET w1 == [Called(w, "__init__", module_id, FALSE, <<>>) EXCEPT
                        !.loaded_modules = Keep(@, module_id),
                        !.modules_vbox = Append(@, module_id)]
         IN  IF outcome = "on_enable_raises"
             THEN Said(Called(w1, "on_enable", module_id, TRUE, <<>>),
                       "Module instantiate error", module_id)
             ELSE LET w2 == Called(w1, "on_enable", module_id, FALSE, <<>>)
                  IN  IF ~HasData(w2) THEN w2
                      ELSE IF outcome = "on_data_raises"
                      THEN Said(Called(w2, "on_data", module_id, TRUE, Dataset(w2)),
                                "Module instantiate error", module_id)
                      ELSE Called(w2, "on_data", module_id, FALSE, Dataset(w2))

\* instantiate_module without the test that the id has an instance
instantiate_module_again(w, module_id, outcome) ==
    IF module_id \notin DOMAIN w.module_specs THEN w
    ELSE Construct(w, module_id, outcome)

instantiate_module(w, module_id, outcome) ==
    IF module_id \in Range(w.loaded_modules) THEN w
    ELSE IF module_id \notin DOMAIN w.module_specs THEN w
    ELSE Construct(w, module_id, outcome)

\* remove_module_widget without the try block around on_disable
remove_module_widget_unguarded(w, module_id, outcome) ==
    IF module_id \notin Range(w.loaded_modules) THEN w
    ELSE IF outcome = "on_disable_raises"
    THEN [Called(w, "on_disable", module_id, TRUE, <<>>) EXCEPT
              !.loaded_modules = Pop(@, module_id), !.escaped = TRUE]
    ELSE [Called(w, "on_disable", module_id, FALSE, <<>>) EXCEPT
              !.loaded_modules = Pop(@, module_id),
              !.modules_vbox = RemoveLast(@, module_id)]

remove_module_widget(w, module_id, outcome) ==
    IF module_id \notin Range(w.loaded_modules) THEN w
    ELSE [Called(w, "on_disable", module_id, outcome = "on_disable_raises", <<>>) EXCEPT
              !.loaded_modules = Pop(@, module_id),
              !.modules_vbox = RemoveLast(@, module_id)]

\* the last two lines of _toggle_module
Persist(w, enabled) ==
    IF w.escaped THEN w
    ELSE LET s == DictSet(w.settings, "enabled_modules", Sorted(enabled))
         IN  [w EXCEPT !.settings = s, !.disk = save_settings(w.disk, s)]

toggle_module(w, module_id, enable, outcome) ==
    LET enabled == Range(enabled_modules(w))
    IN  IF enable
        THEN IF module_id \notin enabled
             THEN Persist(instantiate_module(w, module_id, outcome), enabled \cup {module_id})
             ELSE Persist(w, enabled)
        ELSE IF module_id \in enabled
             THEN Persist(remove_module_widget(w, module_id, outcome), enabled \ {module_id})
             ELSE Persist(w, enabled)

RECURSIVE ApplyFrom(_, _, _, _)
ApplyFrom(w, ids, outcomes, i) ==
    IF i > Len(ids) \/ w.escaped THEN w
    ELSE ApplyFrom(instantiate_module(w, ids[i], outcomes[i]), ids, outcomes, i + 1)

\* apply_enabled_modules going through the ids in sorted order
apply_enabled_modules_sorted(w, outcomes) ==
    ApplyFrom(w, Sorted(Range(enabled_modules(w))), outcomes, 1)

apply_enabled_modules(w, outcomes) == ApplyFrom(w, enabled_modules(w), outcomes, 1)

\* NotifyOne without the try block: the first on_data that raises ends the broadcast
NotifyOneUnguarded(w, m, raising) ==
    IF m \in raising
    THEN [Called(w, "on_data", m, TRUE, Dataset(w)) EXCEPT !.escaped = TRUE]
    ELSE Called(w, "on_data", m, FALSE, Dataset(w))

\* one round of the loop of _notify_modules
NotifyOne(w, m, raising) ==
    IF m \in raising
    THEN Said(Called(w, "on_data", m, TRUE, Dataset(w)), "Module on_data error", m)
    ELSE Called(w, "on_data", m, FALSE, Dataset(w))

RECURSIVE NotifyFrom(_, _, _, _)
NotifyFrom(w, modules, raising, i) ==
    IF i > Len(modules) \/ w.escaped THEN w
    ELSE NotifyFrom(NotifyOne(w, modules[i], raising), modules, raising, i + 1)

notify_modules(w, raising) == NotifyFrom(w, w.loaded_modules, raising, 1)

(***************************************************************************)
(* Fetch                                                                   *)
(***************************************************************************)
\* what the provider answers to one chart request
Response(kind, ts, opens, closes) == [kind |-> kind, ts |-> ts, opens |-> opens, closes |-> closes]
HttpError == Response("http_error", <<>>, <<>>, <<>>)   \* requests.get or raise_for_status raises
ChartError == Response("error", <<>>, <<>>, <<>>)       \* chart.error is set
NoResult == Response("no_result", <<>>, <<>>, <<>>)     \* chart.result is missing or empty
Bars(ts, opens, closes) == Response("ok", ts, opens, closes)

Null == -1    \* a null in the arrays of the response; prices are in 1/100000 and positive
SecondsPerDay == 86400

\* datetime.fromtimestamp(ts, UTC).strftime("%Y-%m-%d"), as the number of the day
DateOf(ts) == ts \div SecondsPerDay
\* float(v) is the double nearest to v/100000: m / 2^k with 2^52 <= m < 2^53.
\* BinaryExponent is e with 2^e <= v/100000 < 2^(e+1), for 0 < v < 2^31
BinaryExponent(u) ==
    IF u >= 100000
    THEN CHOOSE e \in 0..14 : 2^e <= u \div 100000 /\ u \div 100000 < 2^(e + 1)
    ELSE LET least == (100000 + u - 1) \div u
         IN  0 - (CHOOSE n \in 1..17 : 2^(n - 1) < least /\ least <= 2^n)
\* (r * 2^k) % 100000, for 0 <= r < 100000
RECURSIVE DoubledMod(_, _)
DoubledMod(r, k) ==
    IF k <= 14 THEN (r * 2^k) % 100000
    ELSE DoubledMod((r * 2^14) % 100000, k - 14)
\* where float(v) lies: -1 below v/100000, 0 on it, 1 above it
FloatLean(w) ==
    LET r == DoubledMod(w % 100000, 52 - BinaryExponent(w))
    IN  IF r = 0 THEN 0 ELSE IF r < 50000 THEN -1 ELSE 1

\* round(float(v), 4): v in 1/100000, the result too.  round() rounds the
\* double, so a v that ends in 5 goes where float(v) leans, and to the even
\* fourth digit when float(v) is exact
RoundTies(v) ==
    LET q == v \div 10
        d == v % 10
    IN  IF d < 5 THEN q * 10
        ELSE IF d > 5 THEN (q + 1) * 10
        ELSE IF FloatLean(v) < 0 \/ (FloatLean(v) = 0 /\ q % 2 = 0) THEN q * 10
        ELSE (q + 1) * 10
Round4(v) == IF v < 0 THEN 0 - RoundTies(0 - v) ELSE RoundTies(v)

Min(a, b) == IF a < b THEN a ELSE b

RECURSIVE RowsFrom(_, _, _, _)
RowsFrom(ts, opens, closes, i) ==
    IF i > Min(Len(ts), Min(Len(opens), Len(closes))) THEN <<>>
    ELSE IF opens[i] = Null \/ closes[i] = Null THEN RowsFrom(ts, opens, closes, i + 1)
    ELSE <<[date |-> DateOf(ts[i]), open |-> Round4(opens[i]), close |-> Round4(closes[i])]>>
         \o RowsFrom(ts, opens, closes, i + 1)

Returned(requested, rows) == [raised |-> FALSE, requested |-> requested, rows |-> rows]
Raised(requested) == [raised |-> TRUE, requested |-> requested, rows |-> <<>>]

fetch_single(ticker, days, response) ==
    IF ticker = "" \/ days <= 0 THEN Raised(FALSE)
    ELSE IF response.kind # "ok" THEN Raised(TRUE)
    ELSE Returned(TRUE, RowsFrom(response.ts, response.opens, response.closes, 1))

\* str.strip and str.upper on what is typed into the ticker box
Strip(t) == IF t = " A " THEN "A" ELSE IF t = " " THEN "" ELSE t
Upper(t) ==
    IF t = "a" THEN "A" ELSE IF t = "b" THEN "B"
    ELSE IF t = "cryptocurrency" THEN "CRYPTOCURRENCY"
    ELSE IF t = "equity" THEN "EQUITY" ELSE t

\* int(days_text)
IntOf(text) ==
    IF text = "5" THEN [ok |-> TRUE, value |-> 5]
    ELSE IF text = "0" THEN [ok |-> TRUE, value |-> 0]
    ELSE IF text = "-3" THEN [ok |-> TRUE, value |-> 0 - 3]
    ELSE [ok |-> FALSE, value |-> 0]

\* the tickers of the text, upper-cased, each once, in the order typed
RECURSIVE OrderedFrom(_, _, _)
OrderedFrom(fields, i, ordered) ==
    IF i > Len(fields) THEN ordered
    ELSE LET u == Upper(Strip(fields[i]))
         IN  IF Strip(fields[i]) = "" \/ u \in Range(ordered)
             THEN OrderedFrom(fields, i + 1, ordered)
             ELSE OrderedFrom(fields, i + 1, Append(ordered, u))

Status(kind, loaded, failed) == [kind |-> kind, loaded |-> loaded, failed |-> failed]
NoStatus == Status("", <<>>, <<>>)

\* FetchFrom as a cycle that a failing symbol cancels
RECURSIVE FetchFromUntilFailure(_, _, _, _, _)
FetchFromUntilFailure(acc, ordered, days, responses, i) ==
    IF i > Len(ordered) THEN acc
    ELSE LET sym == ordered[i]
             got == fetch_single(sym, days, responses[sym])
             req == IF got.requested THEN Append(acc.requests, sym) ELSE acc.requests
         IN  IF got.raised
             THEN [data |-> EmptyDict, failed |-> Append(acc.failed, sym), requests |-> req]
             ELSE FetchFromUntilFailure(
                    IF got.rows # <<>>
                    THEN [acc EXCEPT !.data = DictSet(@, sym, got.rows), !.requests = req]
                    ELSE [acc EXCEPT !.requests = req],
                    ordered, days, responses, i + 1)

\* the loop over ordered: acc is [data, failed, requests]
RECURSIVE FetchFrom(_, _, _, _, _)
FetchFrom(acc, ordered, days, responses, i) ==
    IF i > Len(ordered) THEN acc
    ELSE LET sym == ordered[i]
             got == fetch_single(sym, days, responses[sym])
             req == IF got.requested THEN Append(acc.requests, sym) ELSE acc.requests
         IN  FetchFrom(
                IF got.raised
                THEN [acc EXCEPT !.failed = Append(@, sym), !.requests = req]
                ELSE IF got.rows # <<>>
                THEN [acc EXCEPT !.data = DictSet(@, sym, got.rows), !.requests = req]
                ELSE [acc EXCEPT !.requests = req],
                ordered, days, responses, i + 1)

\* FetchCycle that tells the plugins only when the cycle brought data
FetchCycleQuietWhenEmpty(w, ordered, days, responses, raising) ==
    LET got == FetchFrom([data |-> EmptyDict, failed |-> <<>>, requests |-> <<>>],
                         ordered, days, responses, 1)
        kept == SelectSeq(ordered, LAMBDA s : s \in DOMAIN got.data)
        w1 == [w EXCEPT !.data_by_symbol = got.data,
                        !.tickers = kept,
                        !.httpCalls = got.requests,
                        !.status = Status(IF kept = <<>> /\ got.failed = <<>>
                                          THEN "no_data" ELSE "done", kept, got.failed)]
    IN  IF HasData(w1) THEN notify_modules(w1, raising) ELSE w1

\* FetchCycle that keeps what an earlier cycle brought for the symbols this one
\* brought nothing for
FetchCycleCarryingOver(w, ordered, days, responses, raising) ==
    LET got == FetchFrom([data |-> EmptyDict, failed |-> <<>>, requests |-> <<>>],
                         ordered, days, responses, 1)
        data == [s \in DOMAIN got.data \cup DOMAIN w.data_by_symbol |->
                    IF s \in DOMAIN got.data THEN got.data[s] ELSE w.data_by_symbol[s]]
        kept == SelectSeq(ordered, LAMBDA s : s \in DOMAIN got.data)
                    \o SelectSeq(w.tickers, LAMBDA s : s \notin DOMAIN got.data)
        w1 == [w EXCEPT !.data_by_symbol = data,
                        !.tickers = kept,
                        !.httpCalls = got.requests,
                        !.status = Status(IF kept = <<>> /\ got.failed = <<>>
                                          THEN "no_data" ELSE "done", kept, got.failed)]
    IN  notify_modules(w1, raising)

\* the part of on_fetch that follows the validation of the input
FetchCycle(w, ordered, days, responses, raising) ==
    LET got == FetchFrom([data |-> EmptyDict, failed |-> <<>>, requests |-> <<>>],
                         ordered, days, responses, 1)
        kept == SelectSeq(ordered, LAMBDA s : s \in DOMAIN got.data)
        w1 == [w EXCEPT !.data_by_symbol = got.data,
                        !.tickers = kept,
                        !.httpCalls = got.requests,
                        !.status = Status(IF kept = <<>> /\ got.failed = <<>>
                                          THEN "no_data" ELSE "done", kept, got.failed)]
    IN  notify_modules(w1, raising)

\* on_fetch that checks the day count and not the ticker list
on_fetch_any_tickers(w, fields, days_text, responses, raising) ==
    LET ordered == OrderedFrom(fields, 1, <<>>)
        days == IntOf(days_text)
    IN  IF ~days.ok THEN [w EXCEPT !.status = Status("invalid_days", <<>>, <<>>)]
        ELSE IF days.value <= 0 THEN [w EXCEPT !.status = Status("days_not_positive", <<>>, <<>>)]
        ELSE FetchCycle(w, ordered, days.value, responses, raising)

on_fetch(w, fields, days_text, responses, raising) ==
    LET ordered == OrderedFrom(fields, 1, <<>>)
        days == IntOf(days_text)
    IN  IF ~days.ok THEN [w EXCEPT !.status = Status("invalid_days", <<>>, <<>>)]
        ELSE IF days.value <= 0 THEN [w EXCEPT !.status = Status("days_not_positive", <<>>, <<>>)]
        ELSE IF ordered = <<>> THEN [w EXCEPT !.status = Status("no_ticker", <<>>, <<>>)]
        ELSE FetchCycle(w, ordered, days.value, responses, raising)

(***************************************************************************)
(* The state machine                                                       *)
(***************************************************************************)
(***************************************************************************)
(* modules/livetracker.py: the quote client and the change computation     *)
(***************************************************************************)
\* an optional number: float(v), or None
Some(v) == <<v>>
Unavailable == <<>>
FromJson(v) == IF v = Null THEN Unavailable ELSE Some(v)

\* a float that is a quotient, kept exact: num / den in lowest terms, den > 0
Abs(n) == IF n < 0 THEN 0 - n ELSE n
RECURSIVE GCD(_, _)
GCD(a, b) == IF b = 0 THEN a ELSE GCD(b, a % b)
Ratio(n, d) ==
    LET g == GCD(Abs(n), Abs(d))
        sign == IF d < 0 THEN 0 - 1 ELSE 1
    IN  [num |-> sign * (n \div g), den |-> sign * (d \div g)]

\* what the provider answers to one GET of a chart url
Answer(kind, node) == [kind |-> kind, node |-> node]
Meta(price, previousClose, instrumentType) ==
    [regularMarketPrice |-> price, previousClose |-> previousClose,
     instrumentType |-> instrumentType, currency |-> "USD", regularMarketTime |-> 0]
Quote(high, low, volume, close) == [high |-> high, low |-> low, volume |-> volume, close |-> close]
Node(meta, timestamp, quote) == [meta |-> meta, timestamp |-> timestamp, quote |-> quote]
NoNode == Node(Meta(Null, Null, None), <<>>, Quote(<<>>, <<>>, <<>>, <<>>))
Unauthorized == Answer("401", NoNode)         \* status 401
Refused == Answer("http_error", NoNode)       \* get, raise_for_status or json raises
ErrorPayload == Answer("error", NoNode)       \* chart.error is set
EmptyResult == Answer("no_result", NoNode)    \* chart.result is missing or empty
Chart(node) == Answer("ok", node)

\* _safe_chart_json: answers[k] is what the k-th GET of the url meets;
\* the result is the json (an answer), or None, and the number of GETs issued
Json(js, gets) == [js |-> js, gets |-> gets]
NoJson == Answer("none", NoNode)

\* past the end of the answers the provider cannot be reached
AnswerAt(answers, k) == IF k <= Len(answers) THEN answers[k] ELSE Refused

\* one round of the loop, the GETs before it being `gets`
SafeChartAttempt(answers, gets) ==
    LET first == AnswerAt(answers, gets + 1)
        again == first.kind = "401"
        r == IF again THEN AnswerAt(answers, gets + 2) ELSE first
        n == IF again THEN gets + 2 ELSE gets + 1
    IN  IF r.kind \in {"401", "http_error"} THEN [raised |-> TRUE, json |-> Json(NoJson, n)]
        ELSE IF r.kind = "error" THEN [raised |-> FALSE, json |-> Json(NoJson, n)]
        ELSE [raised |-> FALSE, json |-> Json(r, n)]

safe_chart_json(answers) ==
    LET one == SafeChartAttempt(answers, 0)
        two == SafeChartAttempt(answers, one.json.gets)
    IN  IF ~one.raised THEN one.json
        ELSE IF ~two.raised THEN two.json
        ELSE Json(NoJson, two.json.gets)

Last(s) == s[Len(s)]

\* the first loop of _fetch_prices_combo for one symbol: the entry of daily_meta
Base(inst, price, prev_close, high, low, vol) ==
    [inst |-> inst, currency |-> "USD", price |-> price, prev_close |-> prev_close,
     high |-> high, low |-> low, vol |-> vol, tstr |-> "-"]
NoBase == Base("", Unavailable, Unavailable, Unavailable, Unavailable, Unavailable)

DailyMeta(node) ==
    LET meta == node.meta
        closes == node.quote.close
        highs == node.quote.high
        lows == node.quote.low
        vols == node.quote.volume
        price == IF meta.regularMarketPrice = Null /\ closes # <<>> /\ Last(closes) # Null
                 THEN Last(closes) ELSE meta.regularMarketPrice
        prev_close == IF meta.previousClose = Null /\ Len(closes) >= 2
                         /\ closes[Len(closes) - 1] # Null
                      THEN closes[Len(closes) - 1] ELSE meta.previousClose
        \* float(None), int(None)
        raised == \/ highs # <<>> /\ Last(highs) = Null
                  \/ lows # <<>> /\ Last(lows) = Null
                  \/ vols # <<>> /\ Last(vols) = Null
    IN  [raised |-> raised,
         base |-> IF raised THEN NoBase
                  ELSE Base(IF meta.instrumentType = None THEN "" ELSE Upper(meta.instrumentType),
                            FromJson(price), FromJson(prev_close),
                            IF highs = <<>> THEN Unavailable ELSE Some(Last(highs)),
                            IF lows = <<>> THEN Unavailable ELSE Some(Last(lows)),
                            IF vols = <<>> THEN Unavailable ELSE Some(Last(vols)))]

\* sym.endswith("-USD")
EndsWithUSD(sym) == sym \in {"BTC-USD"}

\* IsCrypto that looks at the instrument type only
IsCryptoByTag(inst, sym) == inst = "CRYPTOCURRENCY"

IsCrypto(inst, sym) == inst = "CRYPTOCURRENCY" \/ EndsWithUSD(sym)

Snapshot(sym, is_crypto, price, chg, pct, chg_basis, base) ==
    [symbol |-> sym, is_crypto |-> is_crypto, price |-> price, chg |-> chg, pct |-> pct,
     chg_basis |-> chg_basis, high |-> base.high, low |-> base.low, vol |-> base.vol,
     currency |-> base.currency, tstr |-> base.tstr]

\* MidnightPx that takes the first row that has a close, the buffer included
RECURSIVE MidnightPxFromBuffer(_, _, _, _)
MidnightPxFromBuffer(ts, closes, midnight_utc, i) ==
    IF i > Min(Len(ts), Len(closes)) THEN Unavailable
    ELSE IF closes[i] = Null THEN MidnightPxFromBuffer(ts, closes, midnight_utc, i + 1)
    ELSE Some(closes[i])

\* the close of the first row of zip(ts, closes), in the order of the arrays,
\* that has a close and a time at or after midnight_utc
RECURSIVE MidnightPx(_, _, _, _)
MidnightPx(ts, closes, midnight_utc, i) ==
    IF i > Min(Len(ts), Len(closes)) THEN Unavailable
    ELSE IF closes[i] = Null THEN MidnightPx(ts, closes, midnight_utc, i + 1)
    ELSE IF ts[i] >= midnight_utc THEN Some(closes[i])
    ELSE MidnightPx(ts, closes, midnight_utc, i + 1)

\* Change that leaves out the test for a zero basis
ChangeOfAnyBasis(price, basis) ==
    IF price # Unavailable /\ basis # Unavailable
    THEN [chg |-> Some(price[1] - basis[1]),
          pct |-> IF basis[1] = 0 THEN Some(Ratio(0, 1))
                  ELSE Some(Ratio((price[1] - basis[1]) * 100, basis[1]))]
    ELSE [chg |-> Unavailable, pct |-> Unavailable]

Change(price, basis) ==
    IF price # Unavailable /\ basis # Unavailable /\ basis # Some(0)
    THEN [chg |-> Some(price[1] - basis[1]),
          pct |-> Some(Ratio((price[1] - basis[1]) * 100, basis[1]))]
    ELSE [chg |-> Unavailable, pct |-> Unavailable]

\* the branch for a crypto symbol; minute is what _safe_chart_json gave
CryptoSnapshot(sym, base, minute, midnight_utc) ==
    LET has == minute.js.kind = "ok"
        ts == minute.js.node.timestamp
        closes == minute.js.node.quote.close
        midnight_px == IF has THEN MidnightPx(ts, closes, midnight_utc, 1) ELSE Unavailable
        latest_px == IF has /\ base.price = Unavailable /\ closes # <<>> /\ Last(closes) # Null
                     THEN Some(Last(closes)) ELSE base.price
        c == Change(latest_px, midnight_px)
    IN  Snapshot(sym, TRUE, latest_px, c.chg, c.pct, "since_local_midnight", base)

\* the branch for every other symbol
EquitySnapshot(sym, base) ==
    LET c == Change(base.price, base.prev_close)
    IN  Snapshot(sym, FALSE, base.price, c.chg, c.pct, "prev_close", base)

\* _fetch_prices_combo: http[sym] holds the answers of the daily and of the
\* 1-minute url of sym.  acc is [raised, meta, out, order, gets]
Combo(raised, meta, out, gets) == [raised |-> raised, meta |-> meta, out |-> out, gets |-> gets]

RECURSIVE DailyFrom(_, _, _, _)
DailyFrom(acc, symbols, http, i) ==
    IF i > Len(symbols) \/ acc.raised THEN acc
    ELSE LET sym == symbols[i]
             got == safe_chart_json(http[sym].daily)
             gets == acc.gets \o [k \in 1..got.gets |-> <<sym, "1d">>]
             dm == DailyMeta(got.js.node)
         IN  DailyFrom(
                IF got.js.kind # "ok" THEN [acc EXCEPT !.gets = gets]
                ELSE IF dm.raised THEN [acc EXCEPT !.gets = gets, !.raised = TRUE]
                ELSE [acc EXCEPT !.gets = gets, !.meta = DictSet(@, sym, dm.base)],
                symbols, http, i + 1)

RECURSIVE SnapshotsFrom(_, _, _, _, _)
SnapshotsFrom(acc, symbols, http, midnight_utc, i) ==
    IF i > Len(symbols) \/ acc.raised THEN acc
    ELSE LET sym == symbols[i]
         IN  IF sym \notin DOMAIN acc.meta
             THEN SnapshotsFrom(acc, symbols, http, midnight_utc, i + 1)
             ELSE LET base == acc.meta[sym]
                      minute == safe_chart_json(http[sym].minute)
                  IN  SnapshotsFrom(
                         IF IsCrypto(base.inst, sym)
                         THEN [acc EXCEPT
                                 !.gets = @ \o [k \in 1..minute.gets |-> <<sym, "1m">>],
                                 !.out = DictSet(@, sym, CryptoSnapshot(sym, base, minute, midnight_utc))]
                         ELSE [acc EXCEPT !.out = DictSet(@, sym, EquitySnapshot(sym, base))],
                         symbols, http, midnight_utc, i + 1)

fetch_prices_combo(symbols, http, midnight_utc) ==
    LET daily == DailyFrom(Combo(FALSE, EmptyDict, EmptyDict, <<>>), symbols, http, 1)
        done == SnapshotsFrom(daily, symbols, http, midnight_utc, 1)
    IN  IF done.raised THEN Combo(TRUE, EmptyDict, EmptyDict, done.gets) ELSE done

(***************************************************************************)
(* modules/livetracker.py: the plugin instance, its refresh threads and    *)
(* the queued signals.  A thread posts its signals to the event queue of   *)
(* the UI thread; the slots run there, one event at a time, in the order   *)
(* of posting.                                                             *)
(***************************************************************************)
Row(sym, shown, time) == [symbol |-> sym, shown |-> shown, time |-> time]

\* LivePriceTrackerModule.__init__
NewTracker ==
    [_running |-> FALSE, _symbols |-> <<>>, _last |-> EmptyDict, _table |-> <<>>,
     timer |-> TRUE, star |-> FALSE, _status |-> ""]

\* _ensure_row: a symbol that has a row keeps it, any other gets an empty row
\* at the end of the table
ensure_row(table, sym) ==
    IF \E i \in DOMAIN table : table[i].symbol = sym THEN table
    ELSE Append(table, Row(sym, Unavailable, ""))

RECURSIVE EnsureRows(_, _)
EnsureRows(table, symbols) ==
    IF symbols = <<>> THEN table
    ELSE EnsureRows(ensure_row(table, Head(symbols)), Tail(symbols))

\* _sync_rows_to_symbols: the rows of the symbols that left go, then every
\* symbol is given its row, in the order of _symbols
sync_rows_to_symbols(t) ==
    LET kept == SelectSeq(t._table, LAMBDA row : row.symbol \in Range(t._symbols))
    IN  [t EXCEPT !._table = EnsureRows(kept, t._symbols)]

\* _kick_refresh that starts a thread whether the plugin is enabled or not
KickRefreshAlways(t) == t._symbols # <<>>

\* _kick_refresh starts a thread
KickRefresh(t) == t._running /\ t._symbols # <<>>

tracker_on_enable(t) == [t EXCEPT !._running = TRUE, !.timer = TRUE]
tracker_on_disable(t) == [t EXCEPT !._running = FALSE, !.timer = FALSE]
tracker_on_data(t, given) ==
    LET named == SelectSeq(given, LAMBDA s : Strip(s) # "")
    IN  sync_rows_to_symbols([t EXCEPT !._symbols = [i \in DOMAIN named |-> Upper(Strip(named[i]))]])
reset_refresh_interval(t) == [t EXCEPT !.timer = TRUE]

BasisText(info) == IF info.chg_basis = "since_local_midnight" THEN "since midnight" ELSE "vs prev close"

\* _merge_prices_ui that keeps the snapshot a symbol already has
merge_prices_ui_first_wins(t, fresh) ==
    IF fresh = EmptyDict THEN t
    ELSE LET t1 == sync_rows_to_symbols(t)
             got == {s \in Range(t1._symbols) : s \in DOMAIN fresh}
         IN  [t1 EXCEPT
                !._last = [s \in DOMAIN @ \cup got |-> IF s \in DOMAIN @ THEN @[s] ELSE fresh[s]],
                !._table = [i \in DOMAIN @ |->
                               IF @[i].symbol \in got
                               THEN Row(@[i].symbol, Some(fresh[@[i].symbol]), BasisText(fresh[@[i].symbol]))
                               ELSE Row(@[i].symbol, @[i].shown, "-")],
                !.star = \E s \in got : fresh[s].is_crypto]

\* _merge_prices_ui that loops over the symbols of the result
merge_prices_ui_whole_result(t, fresh) ==
    IF fresh = EmptyDict THEN t
    ELSE LET t1 == sync_rows_to_symbols(t)
             got == {s \in Range(t1._symbols) : s \in DOMAIN fresh}
         IN  [t1 EXCEPT
                !._last = [s \in DOMAIN @ \cup DOMAIN fresh |-> IF s \in DOMAIN fresh THEN fresh[s] ELSE @[s]],
                !._table = [i \in DOMAIN @ |->
                               IF @[i].symbol \in got
                               THEN Row(@[i].symbol, Some(fresh[@[i].symbol]), BasisText(fresh[@[i].symbol]))
                               ELSE Row(@[i].symbol, @[i].shown, "-")],
                !.star = \E s \in got : fresh[s].is_crypto]

\* _merge_prices_ui, the slot of pricesSig
merge_prices_ui(t, fresh) ==
    IF fresh = EmptyDict THEN t
    ELSE LET t1 == sync_rows_to_symbols(t)
             got == {s \in Range(t1._symbols) : s \in DOMAIN fresh}
         IN  [t1 EXCEPT
                !._last = [s \in DOMAIN @ \cup got |-> IF s \in got THEN fresh[s] ELSE @[s]],
                !._table = [i \in DOMAIN @ |->
                               IF @[i].symbol \in got
                               THEN Row(@[i].symbol, Some(fresh[@[i].symbol]), BasisText(fresh[@[i].symbol]))
                               ELSE Row(@[i].symbol, @[i].shown, "-")],
                !.star = \E s \in got : fresh[s].is_crypto]

\* _on_status, the slot of statusSig; a message is kept by its first word
on_status(t, msg) == [t EXCEPT !._status = msg]

Midnight == 19000 * SecondsPerDay    \* local midnight, in UTC seconds

\* a thread: the cycle it is, where it stands, what it read
Thread(cycle, phase, job) == [cycle |-> cycle, phase |-> phase, job |-> job]
\* a posted signal
Signal(sig, payload, cycle) == [sig |-> sig, payload |-> payload, cycle |-> cycle]

\* _refresh_worker once the answers are in: the signals it emits
\* _refresh_worker without its except clause: what _fetch_prices_combo raises
\* ends the thread
TrackerSignalsUncaught(th, http) ==
    LET prices == fetch_prices_combo(th.job, http, Midnight)
    IN  IF prices.raised
        THEN <<>>
        ELSE <<Signal("pricesSig", prices.out, th.cycle),
               Signal("statusSig", "Updated", th.cycle)>>

\* _refresh_worker: the signals it emits
TrackerSignals(th, http) ==
    LET prices == fetch_prices_combo(th.job, http, Midnight)
    IN  IF prices.raised
        THEN <<Signal("statusSig", "Refresh error", th.cycle)>>
        ELSE <<Signal("pricesSig", prices.out, th.cycle),
               Signal("statusSig", "Updated", th.cycle)>>

(***************************************************************************)
(* modules/news_ticker.py: the plugin instance, its refresh threads and    *)
(* the queued signals.                                                     *)
(***************************************************************************)
\* where the UI thread stands in _merge_items_ui: the result it was handed,
\* the entry the loop comes to next, and the segments it has built
Slot(busy, cycle, fresh, at, new_segments) ==
    [busy |-> busy, cycle |-> cycle, fresh |-> fresh, at |-> at, new_segments |-> new_segments]
NoSlot == Slot(FALSE, 0, <<>>, 1, <<>>)

\* NewsTickerModule.__init__; prime is the single shot that is still to fire.
\* FEEDPARSER_OK is the flag of the module: the import of feedparser went well
NewNews ==
    [_running |-> FALSE, _items |-> <<>>, _seen_keys |-> {}, text |-> <<>>,
     _prices |-> EmptyDict, _price_cache_ts |-> 0, _status |-> "", prime |-> TRUE,
     slot |-> NoSlot, FEEDPARSER_OK |-> TRUE]
\* the ticker where feedparser is installed, and where it is not (the tracker
\* does not read the flag)
Imported == {[NewNews EXCEPT !.FEEDPARSER_OK = ok] : ok \in BOOLEAN}

news_on_enable(n) == [n EXCEPT !._running = TRUE]
news_on_disable(n) == [n EXCEPT !._running = FALSE]
news_on_data(n) == n

\* refresh_now starts a thread
RefreshNow(n) == n._running

\* an entry of a feed, and the same with its symbol and the price known for
\* it; a title and a link are the sequences of their characters
Article(title, link) == [title |-> title, link |-> link]
Item(title, link, symbol, price) == [title |-> title, link |-> link, symbol |-> symbol, price |-> price]

\* a title is the sequence of its characters
Capitals == <<"A", "B", "C", "D", "E", "F", "G", "H", "I", "J", "K", "L", "M",
              "N", "O", "P", "Q", "R", "S", "T", "U", "V", "W", "X", "Y", "Z">>
Smalls == <<"a", "b", "c", "d", "e", "f", "g", "h", "i", "j", "k", "l", "m",
            "n", "o", "p", "q", "r", "s", "t", "u", "v", "w", "x", "y", "z">>
Figures == {"0", "1", "2", "3", "4", "5", "6", "7", "8", "9"}
\* a title holds characters up to U+00FF.  Of those beyond ASCII, the ones
\* that \w of a str pattern accepts (str.isalnum()): U+00AA, U+00B2, U+00B3,
\* U+00B5, U+00B9, U+00BA, U+00BC to U+00BE, and U+00C0 to U+00FF but for
\* U+00D7 and U+00F7
WordCharsBeyondAscii ==
    {"ª", "²", "³", "µ", "¹", "º", "¼", "½", "¾", "À", "Á", "Â",
     "Ã", "Ä", "Å", "Æ", "Ç", "È", "É", "Ê", "Ë", "Ì", "Í", "Î",
     "Ï", "Ð", "Ñ", "Ò", "Ó", "Ô", "Õ", "Ö", "Ø", "Ù", "Ú", "Û",
     "Ü", "Ý", "Þ", "ß", "à", "á", "â", "ã", "ä", "å", "æ", "ç",
     "è", "é", "ê", "ë", "ì", "í", "î", "ï", "ð", "ñ", "ò", "ó",
     "ô", "õ", "ö", "ø", "ù", "ú", "û", "ü", "ý", "þ", "ÿ"}
\* the characters that \s of a str pattern accepts and str.strip() takes off
\* (str.isspace()): U+0009 to U+000D, U+001C to U+001F, the blank, U+0085 and
\* U+00A0
Whitespace ==
    {"\t", "\n", "", "\f", "\r", "", "", "", "", " ", "", " "}
\* [A-Z] and [A-Za-z]: ASCII only
IsCapital(c) == c \in Range(Capitals)
IsLetter(c) == c \in Range(Capitals) \cup Range(Smalls)
\* \w of a str pattern: alphanumeric in Unicode, or the underscore
IsWordChar(c) == IsLetter(c) \/ c \in Figures \/ c = "_" \/ c \in WordCharsBeyondAscii
\* \s of a str pattern, and what str.strip() takes off
IsSpace(c) == c \in Whitespace
\* [:\s\-]
IsSeparator(c) == c = ":" \/ IsSpace(c) \/ c = "-"
\* str.strip()
RECURSIVE strip(_)
strip(t) ==
    IF t = <<>> THEN t
    ELSE IF IsSpace(Head(t)) THEN strip(Tail(t))
    ELSE IF IsSpace(t[Len(t)]) THEN strip(SubSeq(t, 1, Len(t) - 1))
    ELSE t

\* the character at a position, "" before the start and after the end
CharAt(t, i) == IF i \in DOMAIN t THEN t[i] ELSE ""
\* \b in front of position i
Boundary(t, i) == IsWordChar(CharAt(t, i - 1)) # IsWordChar(CharAt(t, i))
\* (?![A-Za-z]) in front of position i
NoLetter(t, i) == ~IsLetter(CharAt(t, i))
Closes(t, i) == CharAt(t, i) = ")"

\* str.upper() and the text of a sequence of characters
UpperChar(c) == IF \E i \in DOMAIN Smalls : Smalls[i] = c
                THEN Capitals[CHOOSE i \in DOMAIN Smalls : Smalls[i] = c] ELSE c
RECURSIVE Text(_)
Text(w) == IF w = <<>> THEN "" ELSE UpperChar(Head(w)) \o Text(Tail(w))

Largest(ks) == CHOOSE k \in ks : \A other \in ks : other <= k

\* what a pattern requires in front of position i, after its group
Follows(after, t, i) ==
    CASE after = "(?![A-Za-z])" -> NoLetter(t, i)
      [] after = "\\)" -> Closes(t, i)
      [] after = "\\b" -> Boundary(t, i)

\* ([A-Z]{1,5}) at position i with what follows it accepted by after: the
\* length of the group, the longest that fits, 0 when none does
GroupAt(t, i, after) ==
    LET ks == {k \in 1..5 : (\A j \in i..(i + k - 1) : IsCapital(CharAt(t, j))) /\ Follows(after, t, i + k)}
    IN  IF ks = {} THEN 0 ELSE Largest(ks)

\* a match of a pattern: where its group starts and how long the group is
Match(at, len) == [at |-> at, len |-> len]
NoMatch == Match(0, 0)

\* \$([A-Z]{1,5})(?![A-Za-z]) at position i
CashtagAt(t, i) ==
    IF CharAt(t, i) = "$" /\ GroupAt(t, i + 1, "(?![A-Za-z])") > 0
    THEN Match(i + 1, GroupAt(t, i + 1, "(?![A-Za-z])")) ELSE NoMatch

\* \(([A-Z]{1,5})\) at position i
ParenthesizedAt(t, i) ==
    IF CharAt(t, i) = "(" /\ GroupAt(t, i + 1, "\\)") > 0
    THEN Match(i + 1, GroupAt(t, i + 1, "\\)")) ELSE NoMatch

Exchanges == {<<"N", "A", "S", "D", "A", "Q">>, <<"N", "Y", "S", "E">>, <<"A", "M", "E", "X">>,
              <<"L", "S", "E">>, <<"T", "S", "X">>}
\* \b(?:NASDAQ|NYSE|AMEX|LSE|TSX)[:\s\-]+([A-Z]{1,5})\b at position i
ExchangeAt(t, i) ==
    LET names == {name \in Exchanges : \A j \in DOMAIN name : CharAt(t, i + j - 1) = name[j]}
        starts == {i + Len(name) : name \in names}
        fits(from) == {m \in 1..Len(t) : /\ \A j \in from..(from + m - 1) : IsSeparator(CharAt(t, j))
                                         /\ GroupAt(t, from + m, "\\b") > 0}
        good == {from \in starts : fits(from) # {}}
    IN  IF Boundary(t, i) /\ good # {}
        THEN LET from == CHOOSE f \in good : TRUE
                 at == from + Largest(fits(from))
             IN  Match(at, GroupAt(t, at, "\\b"))
        ELSE NoMatch

\* \b([A-Z]{1,5})\b at position i
CapsAt(t, i) ==
    IF Boundary(t, i) /\ GroupAt(t, i, "\\b") > 0
    THEN Match(i, GroupAt(t, i, "\\b")) ELSE NoMatch

Group(t, m) == SubSeq(t, m.at, m.at + m.len - 1)

\* _SYM_PATTERNS: the three marker patterns, by what they look for
PatternAt(pattern, t, i) ==
    CASE pattern = "cashtag" -> CashtagAt(t, i)
      [] pattern = "parenthesized" -> ParenthesizedAt(t, i)
      [] pattern = "exchange" -> ExchangeAt(t, i)

\* pattern.search(title): the match at the first position that has one
Search(t, pattern) ==
    LET hits == {i \in DOMAIN t : PatternAt(pattern, t, i) # NoMatch}
    IN  IF hits = {} THEN NoMatch
        ELSE PatternAt(pattern, t, CHOOSE i \in hits : \A other \in hits : i <= other)

\* re.findall(pattern, title) from position i on: the groups of the matches,
\* left to right, none overlapping
RECURSIVE FindAllFrom(_, _)
FindAllFrom(t, i) ==
    IF i > Len(t) THEN <<>>
    ELSE IF CapsAt(t, i) # NoMatch
         THEN <<Group(t, CapsAt(t, i))>> \o FindAllFrom(t, i + CapsAt(t, i).len)
         ELSE FindAllFrom(t, i + 1)

STOPWORDS ==
    {"THE", "AND", "FOR", "WITH", "FROM", "THIS", "WALL", "STREET", "CNBC", "MARKET", "NEWS",
     "FED", "ECB", "BOE", "OPEC", "GDP", "CPI", "PPI", "EPS", "ETF", "IPO", "AI", "USA", "US",
     "MORE", "LIVE", "DAILY", "TODAY", "BREAKING", "UPDATE", "UPDATES", "TOP", "OF", "IN"}

\* _guess_symbol that takes the marker that comes first in the title
guess_symbol_leftmost(title) ==
    LET found == {m \in {Search(title, "cashtag"), Search(title, "parenthesized"),
                         Search(title, "exchange")} : m # NoMatch}
        words == SelectSeq(FindAllFrom(title, 1), LAMBDA w : Text(w) \notin STOPWORDS)
    IN  IF found # {}
        THEN Text(Group(title, CHOOSE m \in found : \A other \in found : m.at <= other.at))
        ELSE IF words # <<>> THEN Text(words[1]) ELSE None

\* _guess_symbol
guess_symbol(title) ==
    LET cashtag == Search(title, "cashtag")
        parenthesized == Search(title, "parenthesized")
        exchange == Search(title, "exchange")
        words == SelectSeq(FindAllFrom(title, 1), LAMBDA w : Text(w) \notin STOPWORDS)
    IN  IF cashtag # NoMatch THEN Text(Group(title, cashtag))
        ELSE IF parenthesized # NoMatch THEN Text(Group(title, parenthesized))
        ELSE IF exchange # NoMatch THEN Text(Group(title, exchange))
        ELSE IF words # <<>> THEN Text(words[1])
        ELSE None

Front(s) == SubSeq(s, 1, Len(s) - 1)

\* the entries without those whose (title, link) came before
RECURSIVE Unique(_)
Unique(articles) ==
    IF articles = <<>> THEN <<>>
    ELSE LET rest == Unique(Front(articles))
             it == Last(articles)
         IN  IF \E i \in DOMAIN rest : rest[i] = it THEN rest ELSE Append(rest, it)

\* _attach_symbols
attach_symbols(items) ==
    [i \in DOMAIN items |-> Item(items[i].title, items[i].link, guess_symbol(items[i].title), Unavailable)]

SymbolsOf(items) == {items[i].symbol : i \in DOMAIN items} \ {None}

\* TTL of the price cache, in seconds
PriceTtl == 15

\* the TTL gate of the price cache: there are symbols and the cache is older
\* than PriceTtl
Stale(n, symbols, now) == symbols # {} /\ now - n._price_cache_ts > PriceTtl

\* the answer of one feed: _fetch_feed raises, or the entries it finds
Raising == [raised |-> TRUE, entries |-> <<>>]
Entries(es) == [raised |-> FALSE, entries |-> es]

\* with feedparser _fetch_feed keeps d.entries[:60]
EntryLimit == 60
\* _fetch_feed: of the entries of the feed (the first EntryLimit of them when
\* feedparser reads it, all of them when the XML is read without it), those
\* that have a title once it is stripped, with title and link stripped
fetch_feed(answer, parsed) ==
    LET taken == IF parsed THEN SubSeq(answer.entries, 1, Min(EntryLimit, Len(answer.entries)))
                 ELSE answer.entries
        stripped == [i \in DOMAIN taken |-> Article(strip(taken[i].title), strip(taken[i].link))]
    IN  SelectSeq(stripped, LAMBDA e : e.title # <<>>)

\* what a thread holds while it reads the feeds: the answers its feeds will
\* give, how many of them it has read, and the articles it has so far
Fetching(feeds, read, articles) == [feeds |-> feeds, read |-> read, articles |-> articles]

\* what a thread holds once the feeds are read: the answers its feeds gave,
\* the entries with their symbols, the time it read, and whether it found the
\* price cache stale
\* and the entry the loop that attaches the prices has come to
NewsJob(feeds, items, now, stale) ==
    [feeds |-> feeds, items |-> items, now |-> now, stale |-> stale, priced |-> 0]
NoJob == NewsJob(<<>>, <<>>, 0, FALSE)

\* a loop over the feeds that gives up at the first feed that raises
read_feed_until_failure(job, cycle, parsed) ==
    LET answer == job.feeds[job.read + 1]
    IN  IF answer.raised
        THEN [job |-> [job EXCEPT !.read = Len(job.feeds)],
              signals |-> <<Signal("statusSig", "Feed error", cycle)>>]
        ELSE [job |-> [job EXCEPT !.read = @ + 1, !.articles = @ \o fetch_feed(answer, parsed)],
              signals |-> <<>>]

\* one pass of the loop over the feeds: the articles of a feed that answers
\* are added, a feed that raises costs a status signal and nothing else
read_feed(job, cycle, parsed) ==
    LET answer == job.feeds[job.read + 1]
    IN  IF answer.raised
        THEN [job |-> [job EXCEPT !.read = @ + 1],
              signals |-> <<Signal("statusSig", "Feed error", cycle)>>]
        ELSE [job |-> [job EXCEPT !.read = @ + 1, !.articles = @ \o fetch_feed(answer, parsed)],
              signals |-> <<>>]

\* the entries of a thread that carry a symbol and that the loop over the
\* entries has not come to
Unpriced(job) == {i \in DOMAIN job.items : i > job.priced /\ job.items[i].symbol # None}

\* the loop over the entries up to the next one that carries a symbol: it
\* takes the price that the cache holds for the symbol now
enrich_next(job, prices) ==
    LET i == CHOOSE k \in Unpriced(job) : \A j \in Unpriced(job) : k <= j
        it == job.items[i]
    IN  [job EXCEPT !.priced = i,
                    !.items[i] = IF it.symbol \in DOMAIN prices
                                 THEN [it EXCEPT !.price = Some(prices[it.symbol])]
                                 ELSE it]

\* where a thread stands once the lookup is behind it
AfterLookup(job) == IF Unpriced(job) = {} THEN "emitting" ELSE "pricing"

\* _segment_html: the price shown is the one the cache holds at delivery
segment_html(n, it) ==
    [symbol |-> it.symbol, title |-> it.title, link |-> it.link,
     price |-> IF it.symbol # None /\ it.symbol \in DOMAIN n._prices
               THEN Some(n._prices[it.symbol]) ELSE Unavailable]

KeyOf(it) == <<it.title, it.link, IF it.symbol = None THEN "" ELSE it.symbol>>

\* the loop of _merge_items_ui that admits what it has seen
merge_item_unseen(n, it) ==
    [n EXCEPT !._seen_keys = @ \cup {KeyOf(it)},
              !._items = Append(@, it),
              !.slot.new_segments = Append(@, [symbol |-> it.symbol, title |-> it.title, link |-> it.link,
                                                price |-> Unavailable]),
              !.slot.at = @ + 1]

\* the loop of _merge_items_ui that brings the items it has seen up to date
merge_item_updating(n, it) ==
    IF KeyOf(it) \in n._seen_keys
    THEN [n EXCEPT !._items = [i \in DOMAIN @ |->
                                  IF @[i].title = it.title /\ @[i].link = it.link THEN it ELSE @[i]],
                   !.slot.at = @ + 1]
    ELSE [n EXCEPT !._seen_keys = @ \cup {KeyOf(it)},
                   !._items = Append(@, it),
                   !.slot.new_segments = Append(@, [symbol |-> it.symbol, title |-> it.title,
                                                     link |-> it.link, price |-> Unavailable]),
                   !.slot.at = @ + 1]

\* one pass of the loop of _merge_items_ui
merge_item(n, it) ==
    IF KeyOf(it) \in n._seen_keys THEN [n EXCEPT !.slot.at = @ + 1]
    ELSE [n EXCEPT !._seen_keys = @ \cup {KeyOf(it)},
                   !._items = Append(@, it),
                   !.slot.new_segments = Append(@, segment_html(n, it)),
                   !.slot.at = @ + 1]

\* _merge_items_ui after its loop: the label takes the new segments
merge_done(n) == [n EXCEPT !.text = @ \o n.slot.new_segments, !.slot = NoSlot]

\* the loop has come to an entry whose segment reads the price cache
ReadsCache(n) ==
    /\ n.slot.at <= Len(n.slot.fresh)
    /\ KeyOf(n.slot.fresh[n.slot.at]) \notin n._seen_keys
    /\ n.slot.fresh[n.slot.at].symbol # None

\* _merge_items_ui from where it stands to the next read of the price cache
RECURSIVE merge_on(_)
merge_on(n) ==
    IF n.slot.at > Len(n.slot.fresh) THEN merge_done(n)
    ELSE IF ReadsCache(n) THEN n
    ELSE merge_on(merge_item(n, n.slot.fresh[n.slot.at]))

\* _merge_items_ui from where it stands through one read of the price cache
merge_items_ui(n) ==
    IF n.slot.at > Len(n.slot.fresh) THEN merge_done(n)
    ELSE merge_on(merge_item(n, n.slot.fresh[n.slot.at]))

\* _set_status, the slot of statusSig; a message is kept by its first words
set_status(n, msg) == [n EXCEPT !._status = msg]

\* what the user typed and what the provider would answer, for the last on_fetch
Input(fields, days_text, responses) ==
    [fields |-> fields, days_text |-> days_text, responses |-> responses]
NoInput == Input(<<>>, "", <<>>)

\* the host as a handler finds it: nothing called, printed or requested yet
Self ==
    [dir |-> dir, disk |-> disk, settings |-> settings, module_specs |-> module_specs,
     loaded_modules |-> loaded_modules, modules_vbox |-> modules_vbox,
     data_by_symbol |-> data_by_symbol, tickers |-> tickers, status |-> status,
     calls |-> <<>>, printed |-> <<>>, httpCalls |-> <<>>, escaped |-> FALSE]

\* what a handler found when it started
Before(w) ==
    [enabled_modules |-> enabled_modules(w), loaded_modules |-> w.loaded_modules]

\* op.prev is the handler that ran before this one, and whether it released an instance
Prev(name, id, enable, released) ==
    [name |-> name, id |-> id, enable |-> enable, released |-> released]
Op(name, id, enable, before) ==
    [name |-> name, id |-> id, enable |-> enable, before |-> before,
     prev |-> Prev(op.name, op.id, op.enable, \E i \in DOMAIN calls : calls[i].cb = "on_disable")]

Leave(w) ==
    /\ disk' = w.disk
    /\ settings' = w.settings
    /\ module_specs' = w.module_specs
    /\ loaded_modules' = w.loaded_modules
    /\ modules_vbox' = w.modules_vbox
    /\ data_by_symbol' = w.data_by_symbol
    /\ tickers' = w.tickers
    /\ status' = w.status
    /\ calls' = w.calls
    /\ printed' = w.printed
    /\ httpCalls' = w.httpCalls
    /\ escaped' = w.escaped

\* StockTool.__init__: fresh fields, load_settings, discovery, the persisted set
Fresh ==
    [Self EXCEPT !.settings = load_settings(disk), !.module_specs = EmptyDict,
                 !.loaded_modules = <<>>, !.modules_vbox = <<>>,
                 !.data_by_symbol = EmptyDict, !.tickers = <<>>, !.status = NoStatus]

AppStart ==
    /\ pc = "off"
    /\ \E outcomes \in [1..Len(enabled_modules(Fresh)) -> {"ok", "ctor_raises", "on_enable_raises"}] :
          LET w == discover_modules(Fresh)
          IN  /\ Leave(IF w.escaped THEN w ELSE apply_enabled_modules(w, outcomes))
              /\ op' = Op("start", None, FALSE, Before(w))
    /\ pc' = "running"
    /\ input' = NoInput
    /\ UNCHANGED <<dir, quoteVars, pluginVars>>

\* the outcomes that differ for a toggle to enable, and to disable
TogglesOf(enable) ==
    IF enable THEN {"ok", "ctor_raises", "on_enable_raises", "on_data_raises"}
    ELSE {"ok", "on_disable_raises"}

\* a click on the checkbox of a discovered plugin: stateChanged hands over the
\* new state of the box, which was built checked for the ids of the enabled set
Toggle ==
    /\ pc = "running"
    /\ \E module_id \in DOMAIN module_specs :
       \E enable \in {module_id \notin Range(enabled_modules(Self))} :
       \E outcome \in TogglesOf(enable) :
          /\ Leave(toggle_module(Self, module_id, enable, outcome))
          /\ op' = Op("toggle", module_id, enable, Before(Self))
    /\ input' = NoInput
    /\ UNCHANGED <<dir, pc, quoteVars, pluginVars>>

\* _save_module_settings: a click on Save in the Modules tab
SaveModuleSettings ==
    /\ pc = "running"
    /\ Leave([Self EXCEPT !.disk = save_settings(disk, Self.settings)])
    /\ op' = Op("save", None, FALSE, Before(Self))
    /\ input' = NoInput
    /\ UNCHANGED <<dir, pc, quoteVars, pluginVars>>

Symbols == {"A", "B"}
HostFields == {<<" A ", "b", "a">>, <<" ">>}
HostDays == {"abc", "0", "5"}
Day1 == 19000 * SecondsPerDay
HostResponses ==
    {HttpError, Bars(<<Day1, Day1 + SecondsPerDay>>, <<1000004, Null>>, <<1500006, 1500000>>)}

\* the symbols on_fetch asks the provider for
Asked(fields, days_text) ==
    IF IntOf(days_text).ok /\ IntOf(days_text).value > 0
    THEN Range(OrderedFrom(fields, 1, <<>>)) ELSE {}

\* a click on Fetch; the provider's answers matter for the symbols asked for,
\* the plugins' for the cycles that reach them, the tickers once the day count
\* is accepted
Fetch ==
    /\ pc = "running"
    /\ \E fields \in HostFields, days_text \in HostDays :
       \E responses \in [Symbols -> HostResponses] :
       \E raising \in SUBSET Range(loaded_modules) :
          /\ \A s \in Symbols \ Asked(fields, days_text) : responses[s] = HttpError
          /\ Asked(fields, days_text) = {} => raising = {}
          /\ (~IntOf(days_text).ok \/ IntOf(days_text).value <= 0) => fields = <<" A ", "b", "a">>
          /\ Leave(on_fetch(Self, fields, days_text, responses, raising))
          /\ op' = Op("fetch", None, FALSE, Before(Self))
          /\ input' = Input(fields, days_text, responses)
    /\ UNCHANGED <<dir, pc, quoteVars, pluginVars>>

\* the window is closed: the process ends, settings.json and the directory stay
Quit ==
    /\ pc = "running"
    /\ pc' = "off"
    /\ settings' = EmptyDict
    /\ module_specs' = EmptyDict
    /\ loaded_modules' = <<>>
    /\ modules_vbox' = <<>>
    /\ data_by_symbol' = EmptyDict
    /\ tickers' = <<>>
    /\ status' = NoStatus
    /\ calls' = <<>>
    /\ printed' = <<>>
    /\ httpCalls' = <<>>
    /\ escaped' = FALSE
    /\ op' = Op("quit", None, FALSE, Before(Self))
    /\ input' = NoInput
    /\ UNCHANGED <<dir, disk, quoteVars, pluginVars>>

\* enabled_modules as the program writes it holds each id once; "ghost" names
\* a plugin whose file is gone
PersistedLists(n) ==
    UNION {{s \in [1..k -> {"ghost", "p1", "p2", "p3"}] : \A i, j \in 1..k : i # j => s[i] # s[j]}
           : k \in 0..n}
\* a settings.json edited by hand that names an id twice
Repeated == JsonFile(EnabledDoc(<<"p1", "p1">>))
\* one that names an id again after other ids, one of them without a unit
RepeatedApart == JsonFile(EnabledDoc(<<"p1", "ghost", "p2", "p1">>))
Readable(n) ==
    {NoFile, BadFile, JsonFile(EmptyDict), Repeated, RepeatedApart}
        \cup {JsonFile(EnabledDoc(ids)) : ids \in PersistedLists(n)}
\* a directory where settings.json should be, and a read-only settings.json
Unwritable == {Locked(BadFile), Locked(JsonFile(EnabledDoc(<<"p1">>)))}
Disks(n) == Readable(n) \cup Unwritable

Off ==
    /\ pc = "off"
    /\ settings = EmptyDict
    /\ module_specs = EmptyDict
    /\ loaded_modules = <<>>
    /\ modules_vbox = <<>>
    /\ data_by_symbol = EmptyDict
    /\ tickers = <<>>
    /\ status = NoStatus
    /\ calls = <<>>
    /\ printed = <<>>
    /\ httpCalls = <<>>
    /\ escaped = FALSE
    /\ input = NoInput
    /\ op = [name |-> "none", id |-> None, enable |-> FALSE, before |-> Before(Self),
             prev |-> Prev("none", None, FALSE, FALSE)]

\* no LiveTracker cycle is looked at
Request(sym, daily, minute) == [sym |-> sym, daily |-> daily, minute |-> minute]
NoRequest == Request("", <<>>, <<>>)
Pending == [done |-> FALSE, result |-> Combo(FALSE, EmptyDict, EmptyDict, <<>>)]
Done(result) == [done |-> TRUE, result |-> result]
NoQuotes == request = NoRequest /\ reply = Pending

\* no plugin instance is looked at on its own
Epoch == 1000
NoPlugin ==
    /\ plugin = None
    /\ tracker = NewTracker
    /\ news = NewNews
    /\ workers = {}
    /\ queue = <<>>
    /\ started = 0
    /\ clock = Epoch
    /\ event = [name |-> "none", sig |-> "", cycle |-> 0]
    /\ history = [arrived |-> EmptyDict, noted |-> EmptyDict, fed |-> EmptyDict]

HostListings == {<<UnitAlpha, UnitThrows, UnitBeta, UnitGamma>>}

Init ==
    /\ dir \in HostListings
    /\ disk \in Disks(MaxPersisted)
    /\ Off
    /\ NoQuotes
    /\ NoPlugin

Next == AppStart \/ Toggle \/ SaveModuleSettings \/ Fetch \/ Quit

Spec == Init /\ [][Next]_vars

\* discovery on its own: every listing of at most MaxUnits files
DiscoveryDisks == {NoFile, JsonFile(EnabledDoc(<<"p2", "p1">>))}

InitDiscovery ==
    /\ dir \in Listings(MaxUnits)
    /\ disk \in DiscoveryDisks
    /\ Off
    /\ NoQuotes
    /\ NoPlugin

NextDiscovery == AppStart \/ Quit

SpecDiscovery == InitDiscovery /\ [][NextDiscovery]_vars

\* one LiveTracker cycle for one symbol on its own: _fetch_prices_combo([sym])
\* with every answer of the provider that the bounds allow
Buffer == 300                        \* the 1-minute bars are asked for from Midnight - Buffer
BarTimes == <<Midnight - Buffer, Midnight - 60, Midnight, Midnight + 60>>

\* the strictly increasing sequences of at most n indices of BarTimes
Picks(n) ==
    UNION {{pick \in [1..k -> DOMAIN BarTimes] : \A i \in 1..k : i < k => pick[i] < pick[i + 1]}
           : k \in 0..n}
MinuteCloses == {Null, 0, 20000, 20100}
MinuteCharts(n) ==
    UNION {{Chart(Node(Meta(Null, Null, None), [i \in DOMAIN pick |-> BarTimes[pick[i]]],
                       Quote(<<>>, <<>>, <<>>, closes)))
            : closes \in [DOMAIN pick -> MinuteCloses]} : pick \in Picks(n)}

Tags == {None, "", "EQUITY", "CRYPTOCURRENCY", "cryptocurrency"}
DailyCloses == {<<>>, <<120>>, <<100, 150>>, <<Null, 150>>, <<80, Null>>}
DailyLasts == {<<>>, <<Null>>, <<155>>}
PlainChart == Chart(Node(Meta(150, 100, "EQUITY"), <<>>, Quote(<<155>>, <<145>>, <<9000>>, <<100, 150>>)))
NoMinute == <<Refused, Refused>>

\* every way the provider can meet the GETs of the daily url
ClientRequests(n) ==
    {Request("AAPL", daily, NoMinute)
     : daily \in [1..n -> {Unauthorized, Refused, ErrorPayload, PlainChart}]}
\* every shape of the daily answer, for a ticker with and without the -USD suffix
DailyRequests ==
    {Request(sym, <<Chart(Node(Meta(price, prev, tag), <<>>, Quote(lasts, <<>>, <<>>, closes)))>>,
             <<EmptyResult>>)
     : sym \in {"AAPL", "BTC-USD"}, price \in {Null, 150}, prev \in {Null, 0, 100},
       tag \in Tags, lasts \in DailyLasts, closes \in DailyCloses}
\* every shape of the 1-minute answer for a crypto symbol
MinuteRequests(n) ==
    {Request("BTC-USD", <<Chart(Node(Meta(price, 20300, "CRYPTOCURRENCY"), <<>>,
                                     Quote(<<>>, <<>>, <<>>, <<>>)))>>, minute)
     : price \in {Null, 20400},
       minute \in {<<chart>> : chart \in MinuteCharts(n)} \cup {NoMinute, <<ErrorPayload>>, <<EmptyResult>>}}

InitQuotes ==
    /\ dir = <<>> /\ disk = NoFile /\ Off
    /\ request \in ClientRequests(MaxGets) \cup DailyRequests \cup MinuteRequests(MaxBars)
    /\ reply = Pending
    /\ NoPlugin

\* the refresh worker computes the prices of the cycle
FetchPrices ==
    /\ ~reply.done
    /\ reply' = Done(fetch_prices_combo(<<request.sym>>,
                        [s \in {request.sym} |-> [daily |-> request.daily, minute |-> request.minute]],
                        Midnight))
    /\ UNCHANGED <<hostVars, request, pluginVars>>

NextQuotes == FetchPrices

SpecQuotes == InitQuotes /\ [][NextQuotes]_vars

\* symbol detection on its own: _guess_symbol on the titles of at most
\* MaxWords of the words below, on the titles the specification names, and on
\* titles with white space other than the blank and with a letter beyond ASCII
TitleWords ==
    {<<"$", "A", "A", "P", "L">>, <<"(", "M", "S", "F", "T", ")">>,
     <<"N", "Y", "S", "E", ":", "F">>, <<"T", "S", "L", "A">>,
     <<"T", "H", "E">>, <<"G", "D", "P">>, <<"O", "N">>,
     <<"r", "a", "l", "l", "i", "e", "s">>, <<"$", "G", "o", "l", "d">>,
     <<"(", "G", "O", "O", "G", "L", "E", ")">>,
     <<"C", "A", "F", "É">>, <<"L", "S", "E", " ", "B", "P">>}
RECURSIVE Joined(_)
Joined(words) ==
    IF words = <<>> THEN <<>>
    ELSE IF Len(words) = 1 THEN words[1]
    ELSE words[1] \o <<" ">> \o Joined(Tail(words))
CashtagTitle ==
    Joined(<<<<"$", "A", "A", "P", "L">>, <<"s", "u", "r", "g", "e", "s">>, <<"a", "f", "t", "e", "r">>,
             <<"(", "M", "S", "F", "T", ")">>, <<"d", "e", "a", "l">>>>)
ExchangeTitle ==
    Joined(<<<<"N", "A", "S", "D", "A", "Q", ":">>, <<"T", "S", "L", "A">>,
             <<"r", "a", "l", "l", "i", "e", "s">>>>)
StopwordTitle ==
    Joined(<<<<"T", "H", "E">>, <<"F", "E", "D">>, <<"W", "A", "R", "N", "S">>, <<"O", "N">>,
             <<"G", "D", "P">>>>)
\* an exchange name followed by blanks and a tab, and by a colon and a line
\* break; a word in capitals that ends in a letter beyond ASCII
TabbedTitle == <<"T", "S", "X", " ", " ", "\t", "A", "B">>
\* an exchange name followed by a colon and a vertical tab; a word in capitals
\* with a letter beyond ASCII behind it, and one with such a letter in front
VerticalTitle == <<"N", "Y", "S", "E", ":", "", "I", "B", "M">>
UmlautTitle == Joined(<<<<"I", "B", "M", "ü">>, <<"H", "P">>>>)
UmlautFirstTitle == Joined(<<<<"ü", "I", "B", "M">>, <<"H", "P">>>>)
BrokenTitle == <<"N", "Y", "S", "E", ":", "\n", "I", "B", "M">>
AccentedTitle == Joined(<<<<"C", "A", "F", "É">>, <<"u", "p">>>>)
Titles(n) ==
    {Joined(words) : words \in UNION {[1..k -> TitleWords] : k \in 1..n}}
        \cup {CashtagTitle, ExchangeTitle, StopwordTitle, TabbedTitle, BrokenTitle, AccentedTitle,
              VerticalTitle, UmlautTitle, UmlautFirstTitle}

InitTitles ==
    /\ dir = <<>> /\ disk = NoFile /\ Off
    /\ request \in {[title |-> t] : t \in Titles(MaxWords)}
    /\ reply = Pending
    /\ NoPlugin

\* the refresh worker attaches its symbol to a headline
GuessSymbol ==
    /\ ~reply.done
    /\ reply' = Done(guess_symbol(request.title))
    /\ UNCHANGED <<hostVars, request, pluginVars>>

NextTitles == GuessSymbol

SpecTitles == InitTitles /\ [][NextTitles]_vars

(***************************************************************************)
(* What the claims speak about                                             *)
(***************************************************************************)
CallsOf(cb) == SelectSeq(calls, LAMBDA c : c.cb = cb)
IdsOf(cs) == [i \in DOMAIN cs |-> cs[i].id]
TimesCalled(cb, id) == Cardinality({i \in DOMAIN calls : calls[i].cb = cb /\ calls[i].id = id})
SomeCallRaised == \E i \in DOMAIN calls : calls[i].raised
Returns(cb, id) == \E i \in DOMAIN calls : calls[i].cb = cb /\ calls[i].id = id /\ ~calls[i].raised

KnownIds == Range(IdsAscending)
Active == Range(loaded_modules)
Enabled == Range(Get(settings, "enabled_modules", <<>>))

\* the last handler was an on_fetch that passed the validation of its input
FetchCompleted == op.name = "fetch" /\ status.kind \in {"done", "no_data"}
Toggled(enable) == op.name = "toggle" /\ op.enable = enable
Started == op.name = "start"

(***************************************************************************)
(* C1  Every fetch cycle that passes the validation of its input calls     *)
(* on_data exactly once on each plugin that has an active instance at that *)
(* moment, and on no other plugin: none that is outside the enabled set,   *)
(* none without an instance.                                               *)
(***************************************************************************)
C1_BroadcastOncePerActivePlugin ==
    FetchCompleted =>
        /\ loaded_modules = op.before.loaded_modules
        /\ \A id \in KnownIds :
              /\ id \in Range(op.before.loaded_modules) => TimesCalled("on_data", id) = 1
              /\ id \notin Range(op.before.loaded_modules) => TimesCalled("on_data", id) = 0
              /\ id \notin Range(op.before.enabled_modules) => TimesCalled("on_data", id) = 0
        /\ Len(calls) = Len(loaded_modules)

\* a cycle that left an empty dataset, with two active plugins and one disabled
C1_Witness ==
    /\ FetchCompleted
    /\ ~HasData(Self)
    /\ Cardinality(Active) = 2
    /\ Cardinality(DOMAIN module_specs \ Enabled) = 1
    /\ Len(calls) = 2

(***************************************************************************)
(* C2  A broadcast calls on_data on the active instances in the order in   *)
(* which they were instantiated, every call with the host's dataset        *)
(* (data_by_symbol, tickers); a call that raises does not keep the         *)
(* instances after it from being called.                                   *)
(***************************************************************************)
C2_BroadcastInRegistrationOrder ==
    FetchCompleted =>
        /\ IdsOf(calls) = modules_vbox
        /\ \A i \in DOMAIN calls :
              /\ calls[i].cb = "on_data"
              /\ calls[i].arg = <<data_by_symbol, tickers>>
        /\ \A i \in DOMAIN calls : calls[i].raised =>
              \A j \in (i + 1)..Len(modules_vbox) : j \in DOMAIN calls /\ calls[j].id = modules_vbox[j]

\* three instances registered out of id order, the first two raise, the third is served
C2_Witness ==
    /\ FetchCompleted
    /\ HasData(Self)
    /\ modules_vbox = <<"p3", "p1", "p2">>
    /\ calls[1].raised /\ calls[2].raised /\ ~calls[3].raised
    /\ calls[3].id = "p2"

(***************************************************************************)
(* C3  (as stated) After a fetch cycle has completed, toggling a plugin    *)
(* off and on again calls the new instance's on_data with the last         *)
(* dataset, whatever that dataset was.  Stated for the toggles in which    *)
(* the constructor and on_enable return.                                   *)
(***************************************************************************)
ToggledOffThenOn ==
    /\ Toggled(TRUE)
    /\ op.prev = Prev("toggle", op.id, FALSE, TRUE)
    /\ op.id \notin Range(op.before.enabled_modules)
    /\ Returns("__init__", op.id)
    /\ Returns("on_enable", op.id)

Replayed ==
    /\ Len(calls) = 3
    /\ calls[3].cb = "on_data"
    /\ calls[3].id = op.id
    /\ calls[3].arg = <<data_by_symbol, tickers>>
    /\ httpCalls = <<>>

C3_ReplayWhateverTheDataset ==
    (ToggledOffThenOn /\ status.kind \in {"done", "no_data"}) => Replayed

(***************************************************************************)
(* C3  (amended) When the dataset holds at least one symbol, a toggle to   *)
(* enabled whose constructor and on_enable return calls the new instance's *)
(* on_data with that dataset, right after on_enable and without a request  *)
(* to the provider; when the dataset is empty no on_data call is made.     *)
(***************************************************************************)
C3_ReplayOfNonEmptyDataset ==
    (/\ Toggled(TRUE)
     /\ Returns("__init__", op.id)
     /\ Returns("on_enable", op.id))
    => /\ HasData(Self) => Replayed
       /\ ~HasData(Self) => TimesCalled("on_data", op.id) = 0 /\ httpCalls = <<>>

C3_Witness ==
    /\ ToggledOffThenOn
    /\ HasData(Self)
    /\ Replayed

\* the calls of a callback of a plugin that returned
ReturnedCalls(cb, id) == {i \in DOMAIN calls : calls[i].cb = cb /\ calls[i].id = id /\ ~calls[i].raised}

(***************************************************************************)
(* C4  Enabling a plugin that has an instance constructs nothing and calls *)
(* nothing: in one handler the constructor of a plugin returns at most     *)
(* once and is not called again after it returned, on_enable is called at  *)
(* most once, and in every state a plugin id has at most one instance: one *)
(* key in loaded_modules, one widget in the layout.                        *)
(***************************************************************************)
C4_EnableIsIdempotent ==
    /\ \A id \in KnownIds :
          /\ Cardinality(ReturnedCalls("__init__", id)) <= 1
          /\ \A i \in ReturnedCalls("__init__", id) :
                \A j \in DOMAIN calls : (calls[j].cb = "__init__" /\ calls[j].id = id) => j <= i
          /\ TimesCalled("on_enable", id) <= 1
          /\ Count(modules_vbox, id) <= 1 /\ Count(loaded_modules, id) <= 1
    /\ Range(modules_vbox) = Active

\* a start with an id named twice in enabled_modules: the second
\* _instantiate_module finds the instance of the first
C4_Witness ==
    /\ Started
    /\ op.before.enabled_modules = <<"p1", "p1">>
    /\ loaded_modules = <<"p1">>
    /\ TimesCalled("__init__", "p1") = 1
    /\ TimesCalled("on_enable", "p1") = 1

(***************************************************************************)
(* C5  A toggle to disabled of a plugin that has an active instance calls  *)
(* its on_disable exactly once and releases the instance; when on_disable  *)
(* raises the exception stays inside, the instance is released all the     *)
(* same and the enabled set is persisted.                                  *)
(***************************************************************************)
C5_DisableReleasesInstance ==
    (Toggled(FALSE) /\ op.id \in Range(op.before.loaded_modules)) =>
        /\ Len(calls) = 1
        /\ calls[1].cb = "on_disable" /\ calls[1].id = op.id
        /\ op.id \notin Active
        /\ op.id \notin Range(modules_vbox)
        /\ loaded_modules = Pop(op.before.loaded_modules, op.id)
        /\ ~escaped
        /\ op.id \notin Enabled
        /\ disk = save_settings(disk, settings)

\* on_disable raised, other instances stay
C5_Witness ==
    /\ Toggled(FALSE)
    /\ op.id \in Range(op.before.loaded_modules)
    /\ Len(calls) = 1 /\ calls[1].raised
    /\ Len(loaded_modules) = 2
    /\ disk = JsonFile(settings)

(***************************************************************************)
(* C6  After every toggle settings.json holds the enabled set that is in   *)
(* memory, and that set is the one before the toggle with the id added     *)
(* (enable) or taken out (disable), also when the constructor or a         *)
(* lifecycle callback raised.                                              *)
(***************************************************************************)
C6_PersistedAfterEveryToggle ==
    op.name = "toggle" =>
        /\ disk.kind = "json"
        /\ Get(disk.doc, "enabled_modules", <<>>) = Get(settings, "enabled_modules", <<>>)
        /\ "enabled_modules" \in DOMAIN disk.doc
        /\ Enabled = IF op.enable THEN Range(op.before.enabled_modules) \cup {op.id}
                     ELSE Range(op.before.enabled_modules) \ {op.id}

(***************************************************************************)
(* C7  (as stated) On startup every id of the persisted enabled_modules    *)
(* is instantiated and has on_enable called, in the order of the persisted *)
(* sequence.  Stated for the starts in which no plugin code raises.        *)
(***************************************************************************)
PersistedIds == Get(load_settings(disk), "enabled_modules", <<>>)
C7_EveryPersistedIdActivated ==
    (Started /\ ~SomeCallRaised) =>
        /\ loaded_modules = PersistedIds
        /\ IdsOf(CallsOf("on_enable")) = PersistedIds

(***************************************************************************)
(* C7  (amended) On startup every id of the persisted enabled_modules that *)
(* has a discovered descriptor has its constructor called, in the order    *)
(* the persisted sequence is iterated; an id whose constructor returns is  *)
(* instantiated once, its instance is active from then on (the instances   *)
(* stand in the order their constructors returned) and has on_enable       *)
(* called once; an id without a descriptor is skipped, and no id outside   *)
(* the persisted set is activated.                                         *)
(***************************************************************************)
\* sub can be had from seq by leaving elements out
RECURSIVE IsSubsequence(_, _)
IsSubsequence(sub, seq) ==
    IF sub = <<>> THEN TRUE
    ELSE IF seq = <<>> THEN FALSE
    ELSE IF Head(sub) = Head(seq) THEN IsSubsequence(Tail(sub), Tail(seq))
    ELSE IsSubsequence(sub, Tail(seq))

C7_PersistedSetReapplied ==
    Started =>
        LET known == SelectSeq(PersistedIds, LAMBDA id : id \in DOMAIN module_specs)
            tried == IdsOf(CallsOf("__init__"))
            made == IdsOf(SelectSeq(CallsOf("__init__"), LAMBDA c : ~c.raised))
        IN  /\ op.before.enabled_modules = PersistedIds
            /\ IsSubsequence(tried, known)
            /\ Range(tried) = Range(known)
            /\ \A id \in Range(known) : Cardinality(ReturnedCalls("__init__", id)) <= 1
            /\ loaded_modules = made
            /\ IdsOf(CallsOf("on_enable")) = made
            /\ CallsOf("on_data") = <<>> /\ CallsOf("on_disable") = <<>>
            /\ Active \subseteq Range(PersistedIds)
            /\ Get(settings, "enabled_modules", <<>>) = PersistedIds

\* a persisted set with an id whose file is gone and an id named twice: the
\* first constructor call of p1 raises and the second returns, after p2's
C7_Witness ==
    /\ Started
    /\ PersistedIds = <<"p1", "ghost", "p2", "p1">>
    /\ IdsOf(CallsOf("__init__")) = <<"p1", "p2", "p1">>
    /\ CallsOf("__init__")[1].raised
    /\ loaded_modules = <<"p2", "p1">>

(***************************************************************************)
(* C8  No exception of plugin code leaves discovery, a toggle or a         *)
(* broadcast: the handler runs to its last statement whichever plugin      *)
(* code raises (the toggle persists the set, the broadcast reaches every   *)
(* instance, the start goes through the whole persisted set).              *)
(***************************************************************************)
C8_NoPluginExceptionEscapes ==
    /\ ~escaped
    /\ op.name = "toggle" => disk = save_settings(disk, settings)
    /\ FetchCompleted => Len(CallsOf("on_data")) = Len(loaded_modules)
    /\ Started =>
          /\ pc = "running"
          /\ \A id \in Range(PersistedIds) \cap DOMAIN module_specs : TimesCalled("__init__", id) >= 1
          /\ \A i \in DOMAIN dir : dir[i].load = "throws" =>
                \E j \in DOMAIN printed : printed[j] = Line("Module load error", dir[i].fname)

\* a start in which a unit throws on load, a constructor raises and an on_enable raises
C8_Witness ==
    /\ Started
    /\ \E j \in DOMAIN printed : printed[j].tag = "Module load error"
    /\ \E i \in DOMAIN calls : calls[i].cb = "__init__" /\ calls[i].raised
    /\ \E i \in DOMAIN calls : calls[i].cb = "on_enable" /\ calls[i].raised
    /\ Len(loaded_modules) = 2

(***************************************************************************)
(* C9  Discovery isolates the faults of a unit.  The descriptors are those *)
(* of the units that yield one when scanned alone (for an id that two      *)
(* units give, the one scanned last), they are the same as for the listing *)
(* without the units that throw, wherever those stand in it, and each unit *)
(* that throws is printed once as a load error.                            *)
(***************************************************************************)
Scanned(u) == EndsWithPy(u.fname) /\ ~StartsWithUnderscore(u.fname)
QualifyingTypes(u) == {i \in DOMAIN u.exports : u.exports[i].kind = "plugin"}
Throws(u) ==
    /\ Scanned(u)
    /\ \/ u.load = "throws"
       \/ u.load = "ok" /\ \E i \in QualifyingTypes(u) :
             /\ \A j \in QualifyingTypes(u) : i <= j
             /\ ~u.exports[i].ctor_ok
SpecsOf(listing) == discover_modules([Fresh EXCEPT !.dir = listing]).module_specs
Alone(u) == SpecsOf(<<u>>)

C9_DiscoveryIsolatesFaults ==
    Started =>
        /\ module_specs = SpecsOf(SelectSeq(dir, LAMBDA u : ~Throws(u)))
        /\ DOMAIN module_specs = UNION {DOMAIN Alone(dir[i]) : i \in DOMAIN dir}
        /\ \A id \in DOMAIN module_specs :
              \E i \in DOMAIN dir :
                 /\ id \in DOMAIN Alone(dir[i])
                 /\ module_specs[id] = Alone(dir[i])[id]
                 /\ \A j \in DOMAIN dir : j > i => id \notin DOMAIN Alone(dir[j])
        /\ \A i \in DOMAIN dir : Throws(dir[i]) =>
              /\ Alone(dir[i]) = EmptyDict
              /\ Cardinality({j \in DOMAIN printed :
                     printed[j] = Line("Module load error", dir[i].fname)}) = 1
        /\ \A j \in DOMAIN printed : printed[j].tag = "Module load error" =>
              \E i \in DOMAIN dir : Throws(dir[i]) /\ printed[j].what = dir[i].fname

\* a unit that throws before, and one after, a unit that is registered
C9_Witness ==
    /\ Started
    /\ Len(dir) = 3
    /\ Throws(dir[1]) /\ Throws(dir[3])
    /\ dir[1].load = "throws"
    /\ DOMAIN module_specs = DOMAIN Alone(dir[2])
    /\ module_specs # EmptyDict
    /\ Len(printed) = 2

(***************************************************************************)
(* C10  (as stated) A unit that loads and exposes no qualifying plugin     *)
(* type, or more than one, is skipped: no descriptor comes from it.        *)
(***************************************************************************)
Malformed(u) ==
    /\ Scanned(u)
    /\ u.load = "ok"
    /\ Cardinality(QualifyingTypes(u)) # 1

C10_ZeroOrManyTypesYieldNoDescriptor ==
    Started =>
        \A i \in DOMAIN dir : Malformed(dir[i]) =>
            \A id \in DOMAIN module_specs : module_specs[id].factory[1] # dir[i].fname

(***************************************************************************)
(* C10  (as stated, the logged reason) Every such unit has a line about it *)
(* printed.                                                                *)
(***************************************************************************)
C10_SkippedUnitsAreLogged ==
    Started =>
        \A i \in DOMAIN dir : Malformed(dir[i]) =>
            \E j \in DOMAIN printed : printed[j].what = dir[i].fname

(***************************************************************************)
(* C11  (as stated) A plugin type that does not itself provide both an id  *)
(* and a display name gets no descriptor: a type that leaves either field  *)
(* empty, and a subclass that defines neither field, are rejected.         *)
(***************************************************************************)
Provides(cls, attr) == cls[attr] # Undefined /\ Truthy(cls[attr])
TypeOf(u) == FirstQualifying(u.exports, 1)
Unidentified(u) ==
    /\ Scanned(u)
    /\ u.load = "ok"
    /\ TypeOf(u).kind = "plugin"
    /\ ~(Provides(TypeOf(u), "MODULE_ID") /\ Provides(TypeOf(u), "MODULE_NAME"))

C11_TypesWithoutIdAndNameRejected ==
    Started =>
        \A i \in DOMAIN dir : Unidentified(dir[i]) =>
            \A id \in DOMAIN module_specs :
                module_specs[id].factory # <<dir[i].fname, TypeOf(dir[i]).cls>>

(***************************************************************************)
(* C11  (the part the code keeps) A type whose id or display name is       *)
(* falsy once the inherited defaults are applied gets no descriptor.       *)
(***************************************************************************)
C11_FalsyIdOrNameRejected ==
    Started =>
        \A i \in DOMAIN dir :
            (/\ Scanned(dir[i]) /\ dir[i].load = "ok" /\ TypeOf(dir[i]).kind = "plugin"
             /\ \/ ~Truthy(GetAttr(TypeOf(dir[i]), "MODULE_ID"))
                \/ ~Truthy(GetAttr(TypeOf(dir[i]), "MODULE_NAME")))
            => \A id \in DOMAIN module_specs :
                   module_specs[id].factory # <<dir[i].fname, TypeOf(dir[i]).cls>>

(***************************************************************************)
(* C12  A fetch cycle is never all-or-nothing.  Whatever symbols fail, a   *)
(* request is issued for every symbol asked for, in the order asked, and   *)
(* every symbol whose answer holds a bar with an open and a close is in    *)
(* the dataset the host keeps and in the one each plugin is given.         *)
(***************************************************************************)
Requested == OrderedFrom(input.fields, 1, <<>>)
HasBar(response) ==
    /\ response.kind = "ok"
    /\ \E i \in 1..Len(response.ts) :
          /\ i <= Len(response.opens) /\ i <= Len(response.closes)
          /\ response.opens[i] # Null /\ response.closes[i] # Null
Succeeded == {s \in Range(Requested) : HasBar(input.responses[s])}
Failed == {s \in Range(Requested) : input.responses[s].kind # "ok"}

C12_PartialResultsDelivered ==
    FetchCompleted =>
        /\ httpCalls = Requested
        /\ Succeeded \subseteq DOMAIN data_by_symbol
        /\ \A i \in DOMAIN calls : calls[i].cb = "on_data" =>
              Succeeded \subseteq DOMAIN calls[i].arg[1]

\* the first symbol fails, the second is delivered to a plugin
C12_Witness ==
    /\ FetchCompleted
    /\ Len(Requested) = 2
    /\ Requested[1] \in Failed
    /\ Requested[2] \in Succeeded
    /\ \E i \in DOMAIN calls :
          calls[i].cb = "on_data" /\ Requested[2] \in DOMAIN calls[i].arg[1]

(***************************************************************************)
(* C13  On a user input error (no ticker, a day count that is not an       *)
(* integer or not positive) on_fetch returns before any fetch: no request  *)
(* is issued, data_by_symbol and tickers keep their values, and no plugin  *)
(* is called.                                                              *)
(***************************************************************************)
InputError ==
    \/ ~IntOf(input.days_text).ok
    \/ IntOf(input.days_text).value <= 0
    \/ \A i \in DOMAIN input.fields : Strip(input.fields[i]) = ""

C13_InputErrorChangesNothing ==
    [][(op'.name = "fetch" /\ InputError') =>
          /\ httpCalls' = <<>>
          /\ calls' = <<>>
          /\ data_by_symbol' = data_by_symbol
          /\ tickers' = tickers
          /\ loaded_modules' = loaded_modules
          /\ status'.kind \in {"invalid_days", "days_not_positive", "no_ticker"}]_vars

\* an empty ticker list is rejected while a dataset and a plugin are in place
C13_Witness ==
    /\ op.name = "fetch"
    /\ InputError
    /\ input.days_text = "5"
    /\ data_by_symbol # EmptyDict
    /\ loaded_modules # <<>>
    /\ op.prev.name = "fetch"


(***************************************************************************)
(* A plugin instance on its own.  The host constructs one plugin and calls *)
(* its hooks; the user clicks; the timers tick; the threads run; the event *)
(* loop delivers the queued signals.                                       *)
(***************************************************************************)
Event(name, sig, cycle) == [name |-> name, sig |-> sig, cycle |-> cycle]
\* per symbol the snapshot of the last result delivered that held it, and the
\* same for the results delivered while it was tracked, with the cycle of that
\* result and the cycle of the one it replaced
History(arrived, noted) == [arrived |-> arrived, noted |-> noted, fed |-> EmptyDict]
Noted(info, cycle, before) == [info |-> info, cycle |-> cycle, before |-> before]

\* what a UI handler of the tracker leaves: the instance, and a thread more
\* when it ends in a _kick_refresh that starts one
TrackerHandler(name, t, kicks) ==
    /\ plugin = "live_price_tracker"
    /\ tracker' = t
    /\ IF kicks /\ KickRefresh(t)
       THEN /\ started < MaxCycles
            /\ started' = started + 1
            /\ workers' = workers \cup {Thread(started + 1, "started", <<>>)}
       ELSE UNCHANGED <<started, workers>>
    /\ event' = Event(name, "", 0)
    /\ UNCHANGED <<hostVars, quoteVars, plugin, news, queue, history, clock>>

TrackerTickers == {<<>>, <<"AAPL">>, <<"BTC-USD">>}

TrackerEnable == TrackerHandler("on_enable", tracker_on_enable(tracker), TRUE)
TrackerDisable == TrackerHandler("on_disable", tracker_on_disable(tracker), FALSE)
TrackerData ==
    \E given \in TrackerTickers :
        TrackerHandler("on_data", tracker_on_data(tracker, given), TRUE)
\* the timeout of _refresh_timer
TrackerTick == tracker.timer /\ TrackerHandler("_kick_refresh", tracker, TRUE)
\* a click on Refresh Now
TrackerRefreshNow == TrackerHandler("_kick_refresh", tracker, TRUE)
\* the user changes the refresh interval
TrackerSpin == TrackerHandler("spin", reset_refresh_interval(tracker), FALSE)

\* the answers of the provider to one symbol of a cycle
Quoted(price, tag, lasts) ==
    [daily |-> <<Chart(Node(Meta(price, 100, tag), <<>>, Quote(lasts, <<>>, <<>>, <<>>)))>>,
     minute |-> NoMinute]
Down == [daily |-> <<Refused, Refused>>, minute |-> NoMinute]
\* every GET is answered with status 401
Denied == [daily |-> <<Unauthorized, Unauthorized, Unauthorized, Unauthorized>>, minute |-> NoMinute]
\* the daily chart comes with the repeat of the second round, after three
\* answers with status 401, and every GET of the 1-minute chart gets a 401
Throttled(price, tag) ==
    [daily |-> <<Unauthorized, Unauthorized, Unauthorized,
                 Chart(Node(Meta(price, 100, tag), <<>>, Quote(<<>>, <<>>, <<>>, <<>>)))>>,
     minute |-> <<Unauthorized, Unauthorized, Unauthorized, Unauthorized>>]
TrackerAnswers(sym) ==
    IF sym = "AAPL"
    THEN {Down, Denied, Quoted(150, "EQUITY", <<>>), Quoted(151, "EQUITY", <<>>),
          Quoted(150, "EQUITY", <<Null>>)}
    ELSE {Quoted(20400, "CRYPTOCURRENCY", <<>>), Throttled(20500, "CRYPTOCURRENCY")}

\* the thread runs: it reads self._symbols for _fetch_prices_combo
TrackerRead ==
    /\ plugin = "live_price_tracker"
    /\ \E th \in workers :
          /\ th.phase = "started"
          /\ workers' = (workers \ {th}) \cup {Thread(th.cycle, "fetching", tracker._symbols)}
          /\ event' = Event("read", "", th.cycle)
    /\ UNCHANGED <<hostVars, quoteVars, plugin, tracker, news, queue, started, history, clock>>

\* the answers are in: the thread emits its result, or the status of what
\* _fetch_prices_combo raised and ends
TrackerFinish ==
    /\ plugin = "live_price_tracker"
    /\ \E th \in {w \in workers : w.phase = "fetching"} :
       \E http \in [Range(th.job) -> UNION {TrackerAnswers(sym) : sym \in Range(th.job)}] :
       \E signals \in {TrackerSignals(th, http)} :
          /\ \A sym \in Range(th.job) : http[sym] \in TrackerAnswers(sym)
          /\ queue' = IF signals = <<>> THEN queue ELSE Append(queue, Head(signals))
          /\ workers' = IF Len(signals) <= 1 THEN workers \ {th}
                        ELSE (workers \ {th}) \cup {Thread(th.cycle, "reporting", Tail(signals))}
          /\ event' = Event("emit", "", th.cycle)
    /\ UNCHANGED <<hostVars, quoteVars, plugin, tracker, news, started, history, clock>>

\* the thread emits its status and ends
TrackerReport ==
    /\ plugin = "live_price_tracker"
    /\ \E th \in {w \in workers : w.phase = "reporting"} :
          /\ queue' = queue \o th.job
          /\ workers' = workers \ {th}
          /\ event' = Event("finish", "", th.cycle)
    /\ UNCHANGED <<hostVars, quoteVars, plugin, tracker, news, started, history, clock>>

\* the event loop takes the next queued signal to its slot
TrackerDeliver ==
    /\ plugin = "live_price_tracker"
    /\ queue # <<>>
    /\ LET e == Head(queue)
           tracked == Range(tracker._symbols)
       IN  /\ tracker' = IF e.sig = "pricesSig" THEN merge_prices_ui(tracker, e.payload)
                         ELSE on_status(tracker, e.payload)
           /\ history' =
                 IF e.sig # "pricesSig" THEN history
                 ELSE History(
                        [s \in DOMAIN history.arrived \cup DOMAIN e.payload |->
                            IF s \in DOMAIN e.payload THEN e.payload[s] ELSE history.arrived[s]],
                        [s \in DOMAIN history.noted \cup (DOMAIN e.payload \cap tracked) |->
                            IF s \in DOMAIN e.payload \cap tracked
                            THEN Noted(e.payload[s], e.cycle,
                                       IF s \in DOMAIN history.noted THEN history.noted[s].cycle ELSE 0)
                            ELSE history.noted[s]])
           /\ event' = Event("deliver", e.sig, e.cycle)
    /\ queue' = Tail(queue)
    /\ UNCHANGED <<hostVars, quoteVars, plugin, news, workers, started, clock>>

\* what a UI handler of the ticker leaves: the instance, and a thread more
\* when it is a refresh_now that starts one; the UI thread takes it up when it
\* is not inside a slot
NewsHandler(name, n, refreshes) ==
    /\ plugin = "news_ticker"
    /\ ~news.slot.busy
    /\ news' = n
    /\ IF refreshes /\ RefreshNow(n)
       THEN /\ started < MaxCycles
            /\ started' = started + 1
            /\ workers' = workers \cup {Thread(started + 1, "started", NoJob)}
       ELSE UNCHANGED <<started, workers>>
    /\ event' = Event(name, "", 0)
    /\ UNCHANGED <<hostVars, quoteVars, plugin, tracker, queue, history, clock>>

NewsEnable == NewsHandler("on_enable", news_on_enable(news), FALSE)
NewsDisable == NewsHandler("on_disable", news_on_disable(news), FALSE)
NewsData == NewsHandler("on_data", news_on_data(news), FALSE)
\* the single shot of __init__ fires
NewsPrime == news.prime /\ NewsHandler("refresh_now", [news EXCEPT !.prime = FALSE], TRUE)
\* the timeout of _refresh_timer, or a click on Refresh
NewsRefreshNow == NewsHandler("refresh_now", news, TRUE)

\* the feeds of a cycle: none configured; one that answers, one that raises
\* and one that answers with the headline of the first, a duplicate and an
\* entry without a title; and one that answers with more than EntryLimit
\* entries
Headline == Article(<<"A", "p", "p", "l", "e", " ", "(", "A", "A", "P", "L", ")", " ", "u", "p">>, <<"l", "1">>)
Filler == Article(<<"M", "a", "r", "k", "e", "t", "s", " ", "c", "a", "l", "m">>, <<"l", "2">>)
Echo == Article(<<"$", "A", "A", "P", "L", " ", "d", "i", "p", "s">>, <<"l", "3">>)
Rival == Article(<<"T", "e", "s", "l", "a", " ", "(", "T", "S", "L", "A", ")", " ", "f", "a", "l", "l", "s">>, <<"l", "4">>)
Untitled == Article(<<>>, <<"l", "5">>)
Blank == Article(<<" ", "", "\t">>, <<"l", "6">>)
\* the entry of Filler as a feed may give it, with whitespace around title and link
Padded == Article(<<"\t", "">> \o Filler.title \o <<" ", "", "\n">>,
                  <<" ", "">> \o Filler.link \o <<"\r">>)
\* a feed of EntryLimit + 2 entries: entries without a title, the headline as
\* the last entry that _fetch_feed takes and another headline twice behind it
Crowded ==
    [i \in 1..(EntryLimit + 2) |->
        IF i < EntryLimit THEN (IF i % 2 = 0 THEN Untitled ELSE Blank)
        ELSE IF i = EntryLimit THEN Headline ELSE Rival]
NewsFeeds ==
    {<<>>,
     <<Entries(<<Headline>>), Raising, Entries(<<Filler, Untitled, Headline, Echo, Padded>>)>>,
     <<Entries(Crowded)>>}
\* what the quote endpoint knows of a set of symbols when a cycle asks: nothing,
\* or a price that moves with every cycle
NewsQuotes(symbols, cycle) == {EmptyDict, [s \in symbols |-> 150 + cycle]}
\* a thread reads the clock Pace seconds after the one before it did
Pace == 8

\* where a symbol was detected first: the cycle, whether the TTL gate was shut
\* then, and the headlines of that cycle that carried it
Detected(cycle, gated, pairs) == [cycle |-> cycle, gated |-> gated, pairs |-> pairs]
FirstSeen(noted, items, cycle, gated) ==
    [s \in DOMAIN noted \cup SymbolsOf(items) |->
        IF s \in DOMAIN noted THEN noted[s]
        ELSE Detected(cycle, gated, {<<items[i].title, items[i].link>> : i \in {j \in DOMAIN items : items[j].symbol = s}})]

\* the thread starts: it reads the list of feeds, and ends at once with a
\* status when the list is empty
NewsStartFrom(cycle, Feeds) ==
    /\ plugin = "news_ticker"
    /\ \E th \in {w \in workers : w.phase = "started" /\ w.cycle = cycle}, feeds \in Feeds :
          /\ IF feeds = <<>>
             THEN /\ workers' = workers \ {th}
                  /\ queue' = Append(queue, Signal("statusSig", "No feeds configured.", th.cycle))
             ELSE /\ workers' = (workers \ {th}) \cup
                                    {Thread(th.cycle, "fetching", Fetching(feeds, 0, <<>>))}
                  /\ queue' = queue
          /\ history' = [history EXCEPT !.fed = [c \in DOMAIN @ \cup {th.cycle} |->
                                                    IF c = th.cycle THEN feeds ELSE @[c]]]
          /\ event' = Event("read", "", th.cycle)
    /\ UNCHANGED <<hostVars, quoteVars, plugin, tracker, news, started, clock>>

NewsStart == \E cycle \in 1..MaxCycles : NewsStartFrom(cycle, NewsFeeds)

\* a feed of the thread answers or raises
NewsRead ==
    /\ plugin = "news_ticker"
    /\ \E th \in {w \in workers : w.phase = "fetching"} :
       \E step \in {read_feed(th.job, th.cycle, news.FEEDPARSER_OK)} :
          /\ queue' = queue \o step.signals
          /\ workers' = (workers \ {th}) \cup
                 {Thread(th.cycle, IF step.job.read < Len(step.job.feeds) THEN "fetching" ELSE "timing",
                         step.job)}
          /\ event' = Event("read", "", th.cycle)
    /\ UNCHANGED <<hostVars, quoteVars, plugin, tracker, news, started, history, clock>>

\* after its last feed the thread drops the duplicates, attaches the symbols
\* and reads the clock: now = time.time()
NewsClock ==
    /\ plugin = "news_ticker"
    /\ \E th \in {w \in workers : w.phase = "timing"} :
       \E enriched \in {attach_symbols(Unique(th.job.articles))} :
       \E now \in {clock + Pace} :
          /\ clock' = now
          /\ workers' = (workers \ {th}) \cup
                 {Thread(th.cycle, "gating", NewsJob(th.job.feeds, enriched, now, FALSE))}
          /\ event' = Event("clock", "", th.cycle)
    /\ UNCHANGED <<hostVars, quoteVars, plugin, tracker, news, queue, started, history>>

\* if symbols and (now - self._price_cache_ts > 15): the thread reads the time
\* of the last lookup.  It asks the quote endpoint when it finds the cache
\* stale, and goes on to the prices of its entries when not
NewsGateNoting(noting) ==
    /\ plugin = "news_ticker"
    /\ \E th \in {w \in workers : w.phase = "gating"} :
       \E job \in {[th.job EXCEPT !.stale = Stale(news, SymbolsOf(th.job.items), th.job.now)]} :
          /\ workers' = (workers \ {th}) \cup
                 {Thread(th.cycle, IF job.stale THEN "enriching" ELSE AfterLookup(job), job)}
          /\ history' = IF noting
                        THEN [history EXCEPT !.noted =
                                 FirstSeen(@, job.items, th.cycle,
                                           th.job.now - news._price_cache_ts <= PriceTtl)]
                        ELSE history
          /\ event' = Event("gate", "", th.cycle)
    /\ UNCHANGED <<hostVars, quoteVars, plugin, tracker, news, queue, started, clock>>

NewsGate == NewsGateNoting(FALSE)

\* a step of a thread of the ticker past its feeds: what it leaves of the
\* cache and the queue, and where it stands then
NewsThreadStep(name, th, phase, job, n, posted) ==
    /\ plugin = "news_ticker"
    /\ news' = n
    /\ queue' = queue \o posted
    /\ workers' = IF phase = "ended" THEN workers \ {th}
                  ELSE (workers \ {th}) \cup {Thread(th.cycle, phase, job)}
    /\ event' = Event(name, "", th.cycle)
    /\ UNCHANGED <<hostVars, quoteVars, plugin, tracker, started, history, clock>>

\* the quote endpoint answers: what it gave goes into _prices
NewsFinish ==
    \E th \in {w \in workers : w.phase = "enriching"} :
    \E got \in NewsQuotes(SymbolsOf(th.job.items), th.cycle) :
        IF got = EmptyDict
        THEN NewsThreadStep("lookup", th, AfterLookup(th.job), th.job, news, <<>>)
        ELSE NewsThreadStep("lookup", th, "stamping", th.job,
                            [news EXCEPT !._prices = [s \in DOMAIN @ \cup DOMAIN got |->
                                                         IF s \in DOMAIN got THEN got[s] ELSE @[s]]],
                            <<>>)

\* self._price_cache_ts = now
NewsStamp ==
    \E th \in {w \in workers : w.phase = "stamping"} :
        NewsThreadStep("stamp", th, AfterLookup(th.job), th.job,
                       [news EXCEPT !._price_cache_ts = th.job.now], <<>>)

\* the loop over the entries comes to the next one that carries a symbol
NewsPrice ==
    \E th \in {w \in workers : w.phase = "pricing"} :
    \E job \in {enrich_next(th.job, news._prices)} :
        NewsThreadStep("price", th, AfterLookup(job), job, news, <<>>)

\* self.itemsSig.emit(enriched)
NewsEmit ==
    \E th \in {w \in workers : w.phase = "emitting"} :
        NewsThreadStep("emit", th, "reporting", th.job, news,
                       <<Signal("itemsSig", th.job.items, th.cycle)>>)

\* self.statusSig.emit("Updated ..."): the thread ends
NewsReport ==
    \E th \in {w \in workers : w.phase = "reporting"} :
        NewsThreadStep("finish", th, "ended", th.job, news,
                       <<Signal("statusSig", "Updated", th.cycle)>>)

\* how many of the results delivered held a (title, link) pair
PairOf(it) == <<it.title, it.link>>
Supplied(counts, payload) ==
    LET pairs == {PairOf(payload[i]) : i \in DOMAIN payload}
    IN  [pair \in DOMAIN counts \cup pairs |->
            (IF pair \in DOMAIN counts THEN counts[pair] ELSE 0) + (IF pair \in pairs THEN 1 ELSE 0)]

\* the event loop takes the next queued signal to its slot; _merge_items_ui
\* runs through its first read of the price cache, to the end when it has no
\* other to make
NewsDeliver ==
    /\ plugin = "news_ticker"
    /\ ~news.slot.busy
    /\ queue # <<>>
    /\ \E e \in {Head(queue)} :
          IF e.sig = "itemsSig"
          THEN \E n \in {merge_items_ui([news EXCEPT !.slot = Slot(TRUE, e.cycle, e.payload, 1, <<>>)])} :
                  /\ news' = n
                  /\ event' = Event(IF n.slot.busy THEN "merge" ELSE "deliver", e.sig, e.cycle)
                  /\ history' = IF n.slot.busy THEN history
                                ELSE [history EXCEPT !.arrived = Supplied(@, e.payload)]
          ELSE /\ news' = set_status(news, e.payload)
               /\ history' = history
               /\ event' = Event("deliver", e.sig, e.cycle)
    /\ queue' = Tail(queue)
    /\ UNCHANGED <<hostVars, quoteVars, plugin, tracker, workers, started, clock>>

\* the UI thread goes on in _merge_items_ui through its next read of the
\* price cache
NewsMerge ==
    /\ plugin = "news_ticker"
    /\ news.slot.busy
    /\ \E n \in {merge_items_ui(news)} :
          /\ news' = n
          /\ event' = Event(IF n.slot.busy THEN "merge" ELSE "deliver", "itemsSig", news.slot.cycle)
          /\ history' = IF n.slot.busy THEN history
                        ELSE [history EXCEPT !.arrived = Supplied(@, news.slot.fresh)]
    /\ UNCHANGED <<hostVars, quoteVars, plugin, tracker, workers, queue, started, clock>>

InitPlugins ==
    /\ dir = <<>> /\ disk = NoFile /\ Off
    /\ NoQuotes
    /\ plugin \in {"live_price_tracker", "news_ticker"}
    /\ tracker = NewTracker
    /\ news \in IF plugin = "news_ticker" THEN Imported ELSE {NewNews}
    /\ workers = {}
    /\ queue = <<>>
    /\ started = 0
    /\ clock = Epoch
    /\ event = Event("new", "", 0)
    /\ history = History(EmptyDict, EmptyDict)

NextPlugins ==
    \/ TrackerEnable \/ TrackerDisable \/ TrackerData \/ TrackerTick
    \/ TrackerRefreshNow \/ TrackerSpin \/ TrackerRead \/ TrackerFinish \/ TrackerReport
    \/ TrackerDeliver
    \/ NewsEnable \/ NewsDisable \/ NewsData \/ NewsPrime \/ NewsRefreshNow
    \/ NewsStart \/ NewsRead \/ NewsClock \/ NewsGate \/ NewsFinish \/ NewsStamp \/ NewsPrice \/ NewsEmit \/ NewsReport
    \/ NewsDeliver \/ NewsMerge

SpecPlugins == InitPlugins /\ [][NextPlugins]_vars

\* a thread of the tracker that waits for the provider or stands before its
\* last emit leaves where it stands; TrackerFinish and TrackerReport are the
\* steps that do this
TrackerThreadMoves ==
    /\ plugin = "live_price_tracker"
    /\ \E th \in workers :
          \/ /\ th.phase = "fetching"
             /\ \E after \in SUBSET {Thread(th.cycle, "reporting",
                                             <<Signal("statusSig", "Updated", th.cycle)>>)} :
                   workers' = (workers \ {th}) \cup after
          \/ th.phase = "reporting" /\ workers' = workers \ {th}

\* the LiveTracker on its own
InitTracker ==
    /\ dir = <<>> /\ disk = NoFile /\ Off
    /\ NoQuotes
    /\ plugin = "live_price_tracker"
    /\ tracker = NewTracker
    /\ news = NewNews
    /\ workers = {}
    /\ queue = <<>>
    /\ started = 0
    /\ clock = Epoch
    /\ event = Event("new", "", 0)
    /\ history = History(EmptyDict, EmptyDict)

NextTracker ==
    \/ TrackerEnable \/ TrackerDisable \/ TrackerData \/ TrackerTick
    \/ TrackerRefreshNow \/ TrackerSpin \/ TrackerRead \/ TrackerFinish \/ TrackerReport
    \/ TrackerDeliver

\* the threads of the tracker are scheduled, and every GET returns or times
\* out (timeout = 12): a thread that can read does, one that waits for the
\* provider is answered, and one that has emitted its result emits its status
SpecTracker ==
    InitTracker /\ [][NextTracker]_vars /\ WF_vars(TrackerRead) /\ WF_workers(TrackerThreadMoves)

\* one LiveTracker cycle for several symbols on its own: _fetch_prices_combo
\* with an answer of the provider for each symbol
CycleSymbols == {<<"AAPL">>, <<"BTC-USD">>, <<"AAPL", "BTC-USD">>, <<"BTC-USD", "AAPL">>}
CycleAnswers ==
    {Down,
     [daily |-> <<ErrorPayload>>, minute |-> NoMinute],
     [daily |-> <<EmptyResult>>, minute |-> NoMinute],
     Quoted(150, "EQUITY", <<>>),
     Quoted(Null, "EQUITY", <<>>),
     Quoted(150, "EQUITY", <<155>>),
     Quoted(150, "EQUITY", <<Null>>)}

InitCycle ==
    /\ dir = <<>> /\ disk = NoFile /\ Off
    /\ request \in {[symbols |-> symbols, http |-> http]
                    : symbols \in CycleSymbols, http \in [{"AAPL", "BTC-USD"} -> CycleAnswers]}
    /\ \A sym \in {"AAPL", "BTC-USD"} \ Range(request.symbols) : request.http[sym] = Down
    /\ reply = Pending
    /\ NoPlugin

\* the refresh worker computes the prices of the cycle
RefreshCycle ==
    /\ ~reply.done
    /\ reply' = Done(fetch_prices_combo(request.symbols, request.http, Midnight))
    /\ UNCHANGED <<hostVars, request, pluginVars>>

NextCycle == RefreshCycle

SpecCycle == InitCycle /\ [][NextCycle]_vars

(***************************************************************************)
(* The feeds of the news ticker with headlines of two symbols              *)
(***************************************************************************)
\* what the feed carries when a cycle asks: the headlines of Apple for the
\* first cycle, these or the headline of Tesla for the second, the headline
\* of Tesla from then on
TickerFeeds(cycle) ==
    IF cycle = 1 THEN {<<Entries(<<Headline, Echo>>)>>}
    ELSE IF cycle = 2 THEN {<<Entries(<<Headline, Echo>>)>>, <<Entries(<<Rival>>)>>}
    ELSE {<<Entries(<<Rival>>)>>}

InitTicker ==
    /\ dir = <<>> /\ disk = NoFile /\ Off
    /\ NoQuotes
    /\ plugin = "news_ticker"
    /\ tracker = NewTracker
    /\ news = NewNews
    /\ workers = {}
    /\ queue = <<>>
    /\ started = 0
    /\ clock = Epoch
    /\ event = Event("new", "", 0)
    /\ history = History(EmptyDict, EmptyDict)

(***************************************************************************)
(* The news ticker with refresh cycles that overlap: refresh_now starts a  *)
(* thread whatever the threads before it are doing, and the feeds carry    *)
(* headlines of two symbols.                                               *)
(***************************************************************************)
\* refresh_now: the single shot, a timeout of the refresh timer or a click
OverlapRefresh ==
    /\ plugin = "news_ticker"
    /\ ~news.slot.busy
    /\ RefreshNow(news)
    /\ started < MaxRounds
    /\ started' = started + 1
    /\ workers' = workers \cup {Thread(started + 1, "started", NoJob)}
    /\ event' = Event("refresh_now", "", 0)
    /\ UNCHANGED <<hostVars, quoteVars, plugin, tracker, news, queue, clock, history>>

\* the host enables the instance it has constructed
OverlapEnable == ~news._running /\ NewsEnable

OverlapStart == \E cycle \in 1..MaxRounds : NewsStartFrom(cycle, TickerFeeds(cycle))

\* the TTL check, with a note of the symbols that it meets first
OverlapGate == NewsGateNoting(TRUE)

NextOverlap ==
    \/ OverlapEnable \/ OverlapRefresh \/ OverlapStart \/ NewsRead \/ NewsClock \/ OverlapGate
    \/ NewsFinish \/ NewsStamp \/ NewsPrice \/ NewsEmit \/ NewsReport
    \/ NewsDeliver \/ NewsMerge

SpecOverlap == InitTicker /\ [][NextOverlap]_vars

(***************************************************************************)
(* The Winner / Loser counter on its own: the host hands it datasets       *)
(***************************************************************************)
\* the widget: the rows of the table, each the texts of its five cells, and
\* the four numbers of the totals line
Counter(table, totals_line) == [table |-> table, totals_line |-> totals_line]
NewCounter == Counter(<<>>, <<"0", "0", "0", "0">>)

\* the tally of the rows of one ticker: winners, losers, unchanged
RECURSIVE Tally(_)
Tally(rows) ==
    IF rows = <<>> THEN [w |-> 0, l |-> 0, t |-> 0]
    ELSE LET rest == Tally(Front(rows))
             r == Last(rows)
         IN  IF r.open = Null \/ r.close = Null THEN rest
             ELSE IF r.close > r.open THEN [rest EXCEPT !.w = @ + 1]
             ELSE IF r.close < r.open THEN [rest EXCEPT !.l = @ + 1]
             ELSE [rest EXCEPT !.t = @ + 1]

\* the loop over the tickers, from a table and grand totals: a row more for
\* each ticker, and its tally added to the grand totals
RECURSIVE FillFrom(_, _, _, _)
FillFrom(table, grand, data, syms) ==
    IF syms = <<>> THEN [table |-> table, grand |-> grand]
    ELSE LET n == Tally(Get(data, Head(syms), <<>>))
             total == n.w + n.l + n.t
         IN  FillFrom(Append(table, <<Head(syms), ToString(total), ToString(n.w), ToString(n.l), ToString(n.t)>>),
                      [total |-> grand.total + total, w |-> grand.w + n.w,
                       l |-> grand.l + n.l, t |-> grand.t + n.t],
                      data, Tail(syms))

\* on_data that keeps the rows the table has
winnerloser_on_data_appending(c, data, syms) ==
    LET filled == FillFrom(c.table, [total |-> 0, w |-> 0, l |-> 0, t |-> 0], data, syms)
    IN  Counter(filled.table, <<ToString(filled.grand.total), ToString(filled.grand.w),
                                ToString(filled.grand.l), ToString(filled.grand.t)>>)

\* WinnerLoserModule.on_data
winnerloser_on_data(c, data, syms) ==
    LET emptied == SubSeq(c.table, 1, 0)
        filled == FillFrom(emptied, [total |-> 0, w |-> 0, l |-> 0, t |-> 0], data, syms)
    IN  Counter(filled.table, <<ToString(filled.grand.total), ToString(filled.grand.w),
                                ToString(filled.grand.l), ToString(filled.grand.t)>>)

\* the datasets the counter is handed: rows that rose, fell, stayed, or lack
\* an open or a close (Null)
Bar(open, close) == [date |-> 19000, open |-> open, close |-> close]
CounterRows ==
    {<<>>,
     <<Bar(100, 110), Bar(110, 100)>>,
     <<Bar(100, 110), Bar(100, 100), Bar(90, 120)>>,
     <<Bar(Null, 110), Bar(100, 110), Bar(100, Null), Bar(100, 100)>>}
CounterData ==
    UNION {[held -> CounterRows] : held \in SUBSET Symbols}
CounterTickers == {<<>>, <<"A">>, <<"A", "B">>, <<"B", "A">>, <<"A", "A">>, <<"C", "B">>}
\* what the counter was handed last, the number of the call and the widget
\* as it was before it
Handed(data, syms, call, before) ==
    [data_by_symbol |-> data, tickers |-> syms, call |-> call, before |-> before]

InitCounter ==
    /\ dir = <<>> /\ disk = NoFile /\ Off
    /\ request = Handed(EmptyDict, <<>>, 0, NewCounter)
    /\ reply = [done |-> FALSE, result |-> NewCounter]
    /\ NoPlugin

CounterOnData ==
    /\ request.call < MaxCalls
    /\ \E data \in CounterData, syms \in CounterTickers :
          /\ request' = Handed(data, syms, request.call + 1, reply.result)
          /\ reply' = Done(winnerloser_on_data(reply.result, data, syms))
    /\ UNCHANGED <<hostVars, pluginVars>>

NextCounter == CounterOnData

SpecCounter == InitCounter /\ [][NextCounter]_vars

(***************************************************************************)
(* What the claims speak about, for a plugin instance on its own           *)
(***************************************************************************)
\* the step is the delivery of a result of a worker to its merge slot
Delivers(sig) == queue # <<>> /\ Head(queue).sig = sig /\ queue' = Tail(queue)
\* the last step delivered a result of a worker
Delivered(sig) == event.name = "deliver" /\ event.sig = sig

\* what the merges of the two plugins write
TrackerMerged == <<tracker._last, tracker._table>>
NewsMerged == <<news._seen_keys, news._items, news.text>>

(***************************************************************************)
(* C14  A result of a worker that is delivered while its plugin is         *)
(* disabled is discarded: the delivery changes neither _last and the table *)
(* of the LiveTracker nor _seen_keys, _items and the ticker text of the    *)
(* NewsTicker.                                                             *)
(***************************************************************************)
C14_DeliveryAfterDisableDiscarded ==
    [][/\ (Delivers("pricesSig") /\ ~tracker._running) => TrackerMerged' = TrackerMerged
       /\ (Delivers("itemsSig") /\ ~news._running) => NewsMerged' = NewsMerged]_vars

\* the steps of a refresh thread: a response, the reading of the clock, the
\* check of the age of the price cache, the answer of the quote endpoint, the
\* write of the time of the lookup, the price of an entry, and the signals
ThreadSteps == {"read", "clock", "gate", "lookup", "stamp", "price", "emit", "finish"}
\* the plugin instance that is looked at is enabled
Running == IF plugin = "live_price_tracker" THEN tracker._running ELSE news._running
CyclesOf(threads) == {th.cycle : th \in threads}
\* the last step was a timer tick, a manual refresh or an on_data
AskedForRefresh == event.name \in {"_kick_refresh", "refresh_now", "on_data"}

(***************************************************************************)
(* C15  While a plugin instance is disabled (before its first on_enable,   *)
(* and from an on_disable to the next on_enable) no step starts a refresh  *)
(* thread, whether a timer tick, a manual refresh or an on_data; on_disable*)
(* itself leaves the threads in flight and the posted signals alone, and a *)
(* thread in flight leaves only by its own steps.                          *)
(***************************************************************************)
C15_NoCycleStartsWhileDisabled ==
    [][/\ (~Running /\ ~Running') =>
             /\ started' = started
             /\ CyclesOf(workers') \subseteq CyclesOf(workers)
             /\ \A th \in workers :
                   th \in workers' \/ (event'.name \in ThreadSteps /\ event'.cycle = th.cycle)
       /\ event'.name = "on_disable" =>
             started' = started /\ workers' = workers /\ queue' = queue]_vars

\* a refresh was asked for while the instance was disabled, with a thread in
\* flight, symbols to refresh and cycles left to start
C15_Witness ==
    /\ ~Running
    /\ AskedForRefresh
    /\ workers # {}
    /\ started < MaxCycles
    /\ plugin = "live_price_tracker" => tracker._symbols # <<>>

\* a thread in flight ran to completion while the instance was disabled
C15_WitnessCompletion == ~Running /\ event.name = "finish"

\* the symbols the tracker shows
Tracked == Range(tracker._symbols)

(***************************************************************************)
(* C16  After any sequence of deliveries the snapshot stored for a tracked *)
(* symbol is the one of the most recently delivered result that contains   *)
(* the symbol, whichever cycle started first.                              *)
(***************************************************************************)
C16_LastArrivalWins ==
    \A s \in Tracked \cap DOMAIN history.arrived :
        s \in DOMAIN tracker._last /\ tracker._last[s] = history.arrived[s]

(***************************************************************************)
(* C16 (amended)  After any sequence of deliveries the snapshot stored for *)
(* a symbol is the one of the most recently delivered result that          *)
(* contained the symbol while the symbol was tracked, whichever cycle      *)
(* started first; a symbol never in such a result has no snapshot.         *)
(***************************************************************************)
C16_LastArrivalWhileTrackedWins ==
    /\ DOMAIN tracker._last = DOMAIN history.noted
    /\ \A s \in DOMAIN history.noted : tracker._last[s] = history.noted[s].info

\* the result of a cycle arrived after the result of a cycle started later, and
\* replaced the snapshot that one had stored for a tracked symbol
C16_Witness ==
    /\ Delivered("pricesSig")
    /\ \E s \in Tracked \cap DOMAIN history.noted :
          /\ history.noted[s].cycle = event.cycle
          /\ history.noted[s].cycle < history.noted[s].before
          /\ tracker._last[s] = history.noted[s].info
          /\ tracker._last[s].price = Some(150)


(***************************************************************************)
(* What the claims about a LiveTracker cycle speak about                   *)
(***************************************************************************)
Computed == reply.done /\ ~reply.result.raised /\ request.sym \in DOMAIN reply.result.out
Shot == reply.result.out[request.sym]
GetsOf(interval) == Count(reply.result.gets, <<request.sym, interval>>)
DailyNode == request.daily[1].node
MinuteNode == request.minute[1].node

(***************************************************************************)
(* C17  (as stated) One call of the quote client issues at most two HTTP   *)
(* requests, whatever the answers are.                                     *)
(***************************************************************************)
C17_AtMostTwoRequestsPerCall ==
    reply.done => GetsOf("1d") <= 2 /\ GetsOf("1m") <= 2

(***************************************************************************)
(* C17  (as stated) When the first request and its one retry both fail,    *)
(* the call returns failure: the symbol has no snapshot.                   *)
(***************************************************************************)
C17_FailsWhenTheRetryFails ==
    (/\ reply.done
     /\ Len(request.daily) >= 2
     /\ request.daily[1].kind \in {"401", "http_error"}
     /\ request.daily[2].kind \in {"401", "http_error"})
    => ~Computed

(***************************************************************************)
(* C18  Equity change basis.  For a symbol given the prev_close basis,     *)
(* with price p and previous close c, change = p - c and changePercent =   *)
(* (p - c) / c * 100; when c is zero or absent (neither in the meta nor as *)
(* the close before the last) both are unavailable.                        *)
(***************************************************************************)
PrevCloseAbsent ==
    /\ DailyNode.meta.previousClose = Null
    /\ \/ Len(DailyNode.quote.close) < 2
       \/ DailyNode.quote.close[Len(DailyNode.quote.close) - 1] = Null

C18_EquityChangeBasis ==
    (Computed /\ Shot.chg_basis = "prev_close" /\ DailyNode.meta.regularMarketPrice # Null) =>
        LET p == DailyNode.meta.regularMarketPrice
            c == DailyNode.meta.previousClose
        IN  /\ Shot.price = Some(p)
            /\ (c # Null /\ c # 0) =>
                  /\ Shot.chg = Some(p - c)
                  /\ Shot.pct # Unavailable
                  /\ Shot.pct[1].den > 0
                  /\ Shot.pct[1].num * c = (p - c) * 100 * Shot.pct[1].den
            /\ (c = 0 \/ PrevCloseAbsent) =>
                  Shot.chg = Unavailable /\ Shot.pct = Unavailable

\* p = 150 and c = 100 give 50 and 50 percent
C18_Witness ==
    /\ Computed
    /\ Shot.chg_basis = "prev_close"
    /\ DailyNode.meta.regularMarketPrice = 150
    /\ DailyNode.meta.previousClose = 100
    /\ Shot.chg = Some(50)
    /\ Shot.pct = Some([num |-> 50, den |-> 1])

\* a previous close of zero gives no change
C18_WitnessZero ==
    /\ Computed
    /\ Shot.chg_basis = "prev_close"
    /\ DailyNode.meta.regularMarketPrice = 150
    /\ DailyNode.meta.previousClose = 0
    /\ Shot.chg = Unavailable

(***************************************************************************)
(* C19  Crypto change basis.  The reference price is the close of the      *)
(* first 1-minute bar at or after local midnight (a bar has a close: rows  *)
(* without one are dropped), never one of the buffer before midnight;      *)
(* change = latest - reference, changePercent = change / reference * 100,  *)
(* both unavailable when the reference is zero or there is no such bar.    *)
(***************************************************************************)
BarsSinceMidnight ==
    IF request.minute[1].kind # "ok" THEN {}
    ELSE {i \in 1..Min(Len(MinuteNode.timestamp), Len(MinuteNode.quote.close)) :
             MinuteNode.quote.close[i] # Null /\ MinuteNode.timestamp[i] >= Midnight}
FirstSinceMidnight == CHOOSE i \in BarsSinceMidnight : \A j \in BarsSinceMidnight : i <= j

C19_CryptoChangeBasis ==
    (Computed /\ Shot.chg_basis = "since_local_midnight") =>
        /\ (BarsSinceMidnight # {} /\ Shot.price # Unavailable) =>
              LET reference == MinuteNode.quote.close[FirstSinceMidnight]
                  latest == Shot.price[1]
              IN  IF reference = 0
                  THEN Shot.chg = Unavailable /\ Shot.pct = Unavailable
                  ELSE /\ Shot.chg = Some(latest - reference)
                       /\ Shot.pct # Unavailable
                       /\ Shot.pct[1].den > 0
                       /\ Shot.pct[1].num * reference = (latest - reference) * 100 * Shot.pct[1].den
        /\ BarsSinceMidnight = {} => Shot.chg = Unavailable /\ Shot.pct = Unavailable

\* a bar of the buffer closes at 20100, the first bar since midnight at 20000,
\* the latest price is 20400: 400 and 2 percent
C19_Witness ==
    /\ Computed
    /\ Shot.chg_basis = "since_local_midnight"
    /\ request.minute[1].kind = "ok"
    /\ Len(MinuteNode.timestamp) >= 2
    /\ MinuteNode.timestamp[1] < Midnight
    /\ MinuteNode.quote.close[1] = 20100
    /\ BarsSinceMidnight # {}
    /\ MinuteNode.quote.close[FirstSinceMidnight] = 20000
    /\ Shot.price = Some(20400)
    /\ Shot.chg = Some(400)
    /\ Shot.pct = Some([num |-> 2, den |-> 1])

(***************************************************************************)
(* C20  (as stated) A symbol is given the since_local_midnight basis       *)
(* exactly when its instrument type tag equals CRYPTOCURRENCY or its       *)
(* ticker ends with -USD, and the prev_close basis in every other case.    *)
(***************************************************************************)
C20_BasisByExactTag ==
    Computed =>
        /\ Shot.chg_basis \in {"since_local_midnight", "prev_close"}
        /\ Shot.chg_basis = "since_local_midnight" <=>
              (DailyNode.meta.instrumentType = "CRYPTOCURRENCY" \/ EndsWithUSD(request.sym))

(***************************************************************************)
(* C20  (amended) A symbol for which a snapshot is made is given the       *)
(* since_local_midnight basis exactly when its instrument type tag equals  *)
(* CRYPTOCURRENCY, whatever the case of its letters, or its ticker ends    *)
(* with -USD, and the prev_close basis in every other case.                *)
(***************************************************************************)
C20_BasisByTagIgnoringCase ==
    Computed =>
        /\ Shot.chg_basis \in {"since_local_midnight", "prev_close"}
        /\ Shot.is_crypto <=> Shot.chg_basis = "since_local_midnight"
        /\ Shot.chg_basis = "since_local_midnight" <=>
              \/ DailyNode.meta.instrumentType \in {"CRYPTOCURRENCY", "cryptocurrency"}
              \/ EndsWithUSD(request.sym)

\* a ticker without the suffix is crypto by its tag
C20_Witness ==
    /\ Computed
    /\ ~EndsWithUSD(request.sym)
    /\ DailyNode.meta.instrumentType = "CRYPTOCURRENCY"
    /\ Shot.chg_basis = "since_local_midnight"

(***************************************************************************)
(* What the claims about symbol detection speak about                      *)
(***************************************************************************)
Guessed == reply.done
\* the capitals that stand in a row from position i on
CapitalsFrom(t, i) ==
    Cardinality({k \in 1..Len(t) : \A j \in i..(i + k - 1) : IsCapital(CharAt(t, j))})
Ticker(t, i) == Text(SubSeq(t, i, i + CapitalsFrom(t, i) - 1))
First(positions) == CHOOSE i \in positions : \A other \in positions : i <= other
\* where the tickers of the cashtags, of the parenthesized and of the
\* exchange-prefixed tickers of a title start
Cashtags(t) ==
    {i \in DOMAIN t : /\ CharAt(t, i - 1) = "$"
                      /\ CapitalsFrom(t, i) \in 1..5
                      /\ ~IsLetter(CharAt(t, i + CapitalsFrom(t, i)))}
Parenthesized(t) ==
    {i \in DOMAIN t : /\ CharAt(t, i - 1) = "("
                      /\ CapitalsFrom(t, i) \in 1..5
                      /\ CharAt(t, i + CapitalsFrom(t, i)) = ")"}
ExchangePrefixed(t) ==
    {i \in DOMAIN t :
        /\ CapitalsFrom(t, i) \in 1..5
        /\ ~IsWordChar(CharAt(t, i + CapitalsFrom(t, i)))
        /\ \E m \in 1..Len(t), name \in Exchanges :
              /\ \A j \in (i - m)..(i - 1) : IsSeparator(CharAt(t, j))
              /\ \A j \in DOMAIN name : CharAt(t, i - m - Len(name) + j - 1) = name[j]
              /\ ~IsWordChar(CharAt(t, i - m - Len(name) - 1))}

(***************************************************************************)
(* C21  Symbol detection applies its markers in strict precedence,         *)
(* wherever they stand in the title: the first cashtag when there is one,  *)
(* else the first parenthesized ticker, else the first exchange-prefixed   *)
(* ticker, and the all-caps fallback only when there is none of the three; *)
(* "$AAPL surges after (MSFT) deal" gives AAPL and "NASDAQ: TSLA rallies"  *)
(* gives TSLA.                                                             *)
(***************************************************************************)
C21_MarkersInStrictPrecedence ==
    Guessed =>
        LET t == request.title
        IN  /\ Cashtags(t) # {} => reply.result = Ticker(t, First(Cashtags(t)))
            /\ (Cashtags(t) = {} /\ Parenthesized(t) # {}) =>
                  reply.result = Ticker(t, First(Parenthesized(t)))
            /\ (Cashtags(t) = {} /\ Parenthesized(t) = {} /\ ExchangePrefixed(t) # {}) =>
                  reply.result = Ticker(t, First(ExchangePrefixed(t)))
            /\ t = CashtagTitle => reply.result = "AAPL"
            /\ t = ExchangeTitle => reply.result = "TSLA"

\* a cashtag won over a parenthesized ticker and an exchange-prefixed ticker
\* that both stand in front of it
C21_Witness ==
    /\ Guessed
    /\ Cashtags(request.title) # {}
    /\ Parenthesized(request.title) # {}
    /\ ExchangePrefixed(request.title) # {}
    /\ First(Parenthesized(request.title)) < First(Cashtags(request.title))
    /\ First(ExchangePrefixed(request.title)) < First(Cashtags(request.title))
    /\ reply.result = "AAPL"

\* the all-caps words of a title that the fallback may take
CapsWords(t) ==
    {i \in DOMAIN t : /\ ~IsWordChar(CharAt(t, i - 1))
                      /\ CapitalsFrom(t, i) \in 1..5
                      /\ ~IsWordChar(CharAt(t, i + CapitalsFrom(t, i)))}

(***************************************************************************)
(* C22  A title without cashtag, parenthesized and exchange-prefixed       *)
(* ticker whose all-caps words are all stopwords gives no symbol, and the  *)
(* title "THE FED WARNS ON GDP" gives no symbol.                           *)
(***************************************************************************)
C22_StopwordTitlesGiveNoSymbol ==
    Guessed =>
        LET t == request.title
        IN  /\ ( /\ Cashtags(t) = {} /\ Parenthesized(t) = {} /\ ExchangePrefixed(t) = {}
                 /\ \A i \in CapsWords(t) : Ticker(t, i) \in STOPWORDS ) => reply.result = None
            /\ t = StopwordTitle => reply.result = None

\* for the titles whose all-caps words are all in STOPWORDS the claim holds
C22_ListedStopwordsGiveNoSymbol ==
    Guessed =>
        LET t == request.title
        IN  ( /\ Cashtags(t) = {} /\ Parenthesized(t) = {} /\ ExchangePrefixed(t) = {}
              /\ \A i \in CapsWords(t) : Ticker(t, i) \in STOPWORDS ) => reply.result = None

(***************************************************************************)
(* What the claims about the headlines of the ticker speak about           *)
(***************************************************************************)
\* the items of the ticker that carry a (title, link) pair
ItemsOf(pair) == {i \in DOMAIN news._items : PairOf(news._items[i]) = pair}
IsPrefix(s, t) == Len(s) <= Len(t) /\ SubSeq(t, 1, Len(s)) = s
HeadlinePair == <<Headline.title, Headline.link>>
FillerPair == <<Filler.title, Filler.link>>

\* where the feeds that answered hold an entry with a title, among the first
\* entries of each up to a limit, and the (title, link) pair that stands there
TitledPlaces(feeds, limit) ==
    {pl \in UNION {{<<f, j>> : j \in 1..Min(limit, Len(feeds[f].entries))} :
                      f \in {g \in DOMAIN feeds : ~feeds[g].raised}} :
        strip(feeds[pl[1]].entries[pl[2]].title) # <<>>}
PairAt(feeds, pl) ==
    <<strip(feeds[pl[1]].entries[pl[2]].title), strip(feeds[pl[1]].entries[pl[2]].link)>>
Longest(feeds) == Largest({0} \cup {Len(feeds[f].entries) : f \in DOMAIN feeds})
\* the pairs that the feeds of a cycle supply more than once, wherever in a feed
SuppliedAgain(feeds) ==
    {PairAt(feeds, pl) : pl \in {p1 \in TitledPlaces(feeds, Longest(feeds)) :
        \E p2 \in TitledPlaces(feeds, Longest(feeds)) :
            p2 # p1 /\ PairAt(feeds, p2) = PairAt(feeds, p1)}}
\* the pairs that _fetch_feed takes from the feeds that answered: those among
\* the first EntryLimit entries of a feed when feedparser reads it, all of
\* them when not
GoodPairs(feeds) ==
    {PairAt(feeds, pl) :
        pl \in TitledPlaces(feeds, IF news.FEEDPARSER_OK THEN EntryLimit ELSE Longest(feeds))}
\* the step ends the merge of a result of the ticker
Merges == event'.name = "deliver" /\ event'.sig = "itemsSig"

(***************************************************************************)
(* C23  (as stated) A (title, link) pair that the feeds of a cycle supply  *)
(* more than once has exactly one item in the item list of the ticker once *)
(* the result of the cycle is delivered.                                   *)
(***************************************************************************)
C23_OneItemPerSuppliedPair ==
    [][Merges => \A pair \in SuppliedAgain(history.fed[event'.cycle]) :
                    Cardinality({i \in DOMAIN news'._items : PairOf(news'._items[i]) = pair}) = 1]_vars

(***************************************************************************)
(* C23  (amended) However often a (title, link) pair is supplied among the *)
(* entries that _fetch_feed takes from the feeds that answer (the first 60 *)
(* entries of a feed when feedparser reads it, every entry when not), in   *)
(* one feed, in several feeds of a cycle or in several cycles, the item    *)
(* list of the ticker holds exactly one item for it once a result of such  *)
(* a cycle is delivered; every item is of a pair of a result delivered or  *)
(* of an entry the merge in progress has passed, and a result never holds  *)
(* a pair twice.                                                           *)
(***************************************************************************)
C23_OneItemPerPair ==
    [][/\ Merges => \A pair \in GoodPairs(history.fed[event'.cycle]) :
                       Cardinality({i \in DOMAIN news'._items : PairOf(news'._items[i]) = pair}) = 1
       /\ \A pair \in DOMAIN history'.arrived :
             plugin = "news_ticker" =>
                 Cardinality({i \in DOMAIN news'._items : PairOf(news'._items[i]) = pair}) = 1
       /\ \A i \in DOMAIN news'._items :
             \/ PairOf(news'._items[i]) \in DOMAIN history'.arrived
             \/ news'.slot.busy /\ \E k \in 1..(news'.slot.at - 1) :
                                     PairOf(news'.slot.fresh[k]) = PairOf(news'._items[i])
       /\ \A k \in DOMAIN queue' :
             queue'[k].sig = "itemsSig" =>
                 \A i, j \in DOMAIN queue'[k].payload :
                     PairOf(queue'[k].payload[i]) = PairOf(queue'[k].payload[j]) => i = j]_vars

\* the result of a cycle with three feeds is delivered: the first and the last
\* of them held the headline, the last held a pair twice, and the headline
\* had come in the result of another cycle
C23_Witness ==
    /\ plugin = "news_ticker"
    /\ Delivered("itemsSig")
    /\ Len(history.fed[event.cycle]) = 3
    /\ HeadlinePair \in SuppliedAgain(history.fed[event.cycle])
    /\ FillerPair \in SuppliedAgain(history.fed[event.cycle])
    /\ history.arrived[HeadlinePair] > 1
    /\ Cardinality(ItemsOf(HeadlinePair)) = 1
    /\ Cardinality(ItemsOf(FillerPair)) = 1

(***************************************************************************)
(* C24  The headlines are append-only: whatever the step, _seen_keys and   *)
(* _items only grow, an item that was admitted stays where and as it is,   *)
(* the ticker text only gets segments at its end, and no two items have    *)
(* the same (title, link, symbol) key.                                     *)
(***************************************************************************)
C24_HeadlinesAppendOnly ==
    [][/\ news._seen_keys \subseteq news'._seen_keys
       /\ IsPrefix(news._items, news'._items)
       /\ IsPrefix(news.text, news'.text)
       /\ \A i, j \in DOMAIN news'._items :
             KeyOf(news'._items[i]) = KeyOf(news'._items[j]) => i = j
       /\ {KeyOf(news'._items[i]) : i \in DOMAIN news'._items} = news'._seen_keys]_vars

\* a headline came again, now with a price, and the item admitted without
\* one is as it was
C24_Witness ==
    /\ Delivered("itemsSig")
    /\ HeadlinePair \in DOMAIN history.arrived
    /\ history.arrived[HeadlinePair] > 1
    /\ "AAPL" \in DOMAIN news._prices
    /\ \E i \in DOMAIN news._items :
          PairOf(news._items[i]) = HeadlinePair /\ news._items[i].price = Unavailable

\* the step is a step of a refresh thread
WorkerStep == event'.name \in ThreadSteps

(***************************************************************************)
(* C25  A refresh thread of the LiveTracker or of the NewsTicker writes no *)
(* state of the plugin instance, which the UI thread reads and writes: a   *)
(* step of a thread leaves the instance as it is, and all it does is post  *)
(* signals.                                                                *)
(***************************************************************************)
C25_WorkersWriteNoOwnerState ==
    [][WorkerStep => (tracker' = tracker /\ news' = news)]_vars

(***************************************************************************)
(* C26  The accesses of overlapping NewsTicker cycles to the quote cache   *)
(* do not interleave: no thread is between its TTL check and its update    *)
(* while another is, and _price_cache_ts never moves backwards.            *)
(***************************************************************************)
C26_CacheAccessSerialized ==
    [][/\ news'._price_cache_ts >= news._price_cache_ts
       /\ Cardinality({th \in workers : th.phase \in {"enriching", "stamping"}}) <= 1]_vars

\* the second half of C26 alone
C26_TimestampNeverMovesBack ==
    [][news'._price_cache_ts >= news._price_cache_ts]_vars

(***************************************************************************)
(* C27  No handler of the owner (UI) context performs a network call       *)
(* itself: the handlers of the host, on_fetch among them, issue no GET.    *)
(***************************************************************************)
C27_NoRequestInOwnerContext == httpCalls = <<>>

(***************************************************************************)
(* What the claims about the failures of a LiveTracker cycle speak about   *)
(***************************************************************************)
\* the daily fetch of a symbol of the cycle gave a chart with a price, and no
\* value of it is null
FetchSucceeded(sym) ==
    /\ request.http[sym].daily[1].kind = "ok"
    /\ request.http[sym].daily[1].node.meta.regularMarketPrice # Null
    /\ \A i \in DOMAIN request.http[sym].daily[1].node.quote.high :
          request.http[sym].daily[1].node.quote.high[i] # Null

(***************************************************************************)
(* C28  In a LiveTracker cycle failures are per-symbol: whatever the       *)
(* answer for one symbol is (HTTP failure, error payload, no result array, *)
(* null values), every other symbol whose fetch succeeded is in the result *)
(* map of the cycle.                                                       *)
(***************************************************************************)
C28_FailuresArePerSymbol ==
    reply.done =>
        \A i \in DOMAIN request.symbols :
            FetchSucceeded(request.symbols[i]) =>
                ~reply.result.raised /\ request.symbols[i] \in DOMAIN reply.result.out

\* C28 for the failures that give no chart: those are per-symbol
C28_MissingChartsArePerSymbol ==
    reply.done =>
        ( (\A i \in DOMAIN request.symbols :
               LET answer == request.http[request.symbols[i]].daily[1]
               IN  answer.kind = "ok" => \A k \in DOMAIN answer.node.quote.high :
                                            answer.node.quote.high[k] # Null)
          => \A i \in DOMAIN request.symbols :
                FetchSucceeded(request.symbols[i]) =>
                    ~reply.result.raised /\ request.symbols[i] \in DOMAIN reply.result.out )

\* the daily answer for the symbol of the cycle is a chart
DailyAnswered == request.daily[1].kind = "ok"
Absent(values) == values = <<>> \/ Last(values) = Null

(***************************************************************************)
(* C29  Whatever numeric inputs of a symbol are missing or null (price,    *)
(* previous close, last high, last low, last volume, closes), the          *)
(* computation does not raise and gives a snapshot in which every value    *)
(* that cannot be computed is unavailable, never 0.                        *)
(***************************************************************************)
C29_MissingInputsNeverRaise ==
    (reply.done /\ DailyAnswered) =>
        /\ Computed
        /\ Absent(DailyNode.quote.high) => Shot.high = Unavailable
        /\ Absent(DailyNode.quote.low) => Shot.low = Unavailable
        /\ Absent(DailyNode.quote.volume) => Shot.vol = Unavailable
        /\ (DailyNode.meta.regularMarketPrice = Null /\ Absent(DailyNode.quote.close)
               /\ ~Shot.is_crypto) =>
              Shot.price = Unavailable /\ Shot.chg = Unavailable /\ Shot.pct = Unavailable
        /\ (PrevCloseAbsent /\ ~Shot.is_crypto) => Shot.chg = Unavailable /\ Shot.pct = Unavailable

\* C29 when the last high, low and volume of the answer are not null
C29_MissingInputsWithoutNullLasts ==
    (reply.done /\ DailyAnswered
        /\ (DailyNode.quote.high = <<>> \/ Last(DailyNode.quote.high) # Null)) =>
        /\ Computed
        /\ Absent(DailyNode.quote.high) => Shot.high = Unavailable
        /\ (DailyNode.meta.regularMarketPrice = Null /\ Absent(DailyNode.quote.close)
               /\ ~Shot.is_crypto) =>
              Shot.price = Unavailable /\ Shot.chg = Unavailable /\ Shot.pct = Unavailable
        /\ (PrevCloseAbsent /\ ~Shot.is_crypto) => Shot.chg = Unavailable /\ Shot.pct = Unavailable

\* where a ticker stands first in the fields typed
FirstTyped(u) ==
    CHOOSE k \in DOMAIN input.fields :
        /\ Upper(Strip(input.fields[k])) = u
        /\ \A j \in 1..(k - 1) : Upper(Strip(input.fields[j])) # u

(***************************************************************************)
(* C30  After every completed host fetch cycle the dataset is the one of   *)
(* this cycle and nothing else: data_by_symbol holds exactly the symbols   *)
(* asked for that returned at least one bar, with the bars of this cycle,  *)
(* and tickers lists exactly those keys, upper-cased, each once, in the    *)
(* order in which they were first typed.                                   *)
(***************************************************************************)
C30_DatasetReplacedWholesale ==
    FetchCompleted =>
        /\ DOMAIN data_by_symbol = Succeeded
        /\ \A s \in Succeeded :
              data_by_symbol[s] = fetch_single(s, IntOf(input.days_text).value, input.responses[s]).rows
        /\ Range(tickers) = DOMAIN data_by_symbol
        /\ Range(tickers) \subseteq Symbols
        /\ \A i, j \in DOMAIN tickers :
              /\ tickers[i] = tickers[j] => i = j
              /\ i < j => FirstTyped(tickers[i]) < FirstTyped(tickers[j])

\* a cycle that follows another brought bars for one of two symbols that were
\* typed, one of them twice
C30_Witness ==
    /\ FetchCompleted
    /\ op.prev.name = "fetch"
    /\ Len(input.fields) > Len(Requested)
    /\ Requested = <<"A", "B">>
    /\ tickers = <<"A">>
    /\ DOMAIN data_by_symbol = {"A"}

(***************************************************************************)
(* What the claims about the quote lookups of the ticker speak about       *)
(***************************************************************************)
\* the threads that take a step, and those of them that the quote endpoint
\* answers with it: they found the price cache stale and asked
Ending == workers \ workers'
LookingUp == {th \in Ending : plugin = "news_ticker" /\ th.phase = "enriching"}
\* the threads that read the clock with this step
Timing == {th \in Ending : plugin = "news_ticker" /\ th.phase = "timing"}
\* the threads that check the age of the price cache with this step
Gating == {th \in Ending : plugin = "news_ticker" /\ th.phase = "gating"}
\* the threads that give the next entry with a symbol its price with this step
Pricing == {th \in Ending : plugin = "news_ticker" /\ th.phase = "pricing"}
\* the result a thread emits with this step
Emitted == {queue'[k].payload : k \in {i \in DOMAIN queue' \ DOMAIN queue : queue'[i].sig = "itemsSig"}}
\* an entry carries the price that a cache holds for its symbol, and no other
PricedFrom(it, prices) ==
    it.price = IF it.symbol # None /\ it.symbol \in DOMAIN prices
               THEN Some(prices[it.symbol]) ELSE Unavailable

(***************************************************************************)
(* C31  A news cycle asks the quote endpoint only when more than 15        *)
(* seconds have passed since the last successful lookup: a thread that     *)
(* asks took its time more than PriceTtl after the time the cache has of   *)
(* the last lookup that succeeded, and a thread that does not ask leaves   *)
(* the cache as it is and gives its entries the prices of the cache.       *)
(***************************************************************************)
C31_LookupOnlyAfterTtl ==
    [][/\ \A th \in LookingUp : th.job.now - news._price_cache_ts > PriceTtl
       /\ \A th \in Ending :
             (plugin = "news_ticker" /\ th.phase \in {"pricing", "emitting", "reporting"} /\ ~th.job.stale) =>
                 /\ news'._prices = news._prices
                 /\ news'._price_cache_ts = news._price_cache_ts
       /\ \A th \in Pricing : \A w \in workers' \ workers :
             w.cycle = th.cycle => PricedFrom(w.job.items[w.job.priced], news._prices)]_vars

(***************************************************************************)
(* What the claim about the feeds of a cycle speaks about                  *)
(***************************************************************************)
\* a list of entries holds each pair that _fetch_feed takes from the feeds
\* that answered once, with the symbol of its title
HoldsOnce(items, feeds) ==
    /\ {PairOf(items[i]) : i \in DOMAIN items} = GoodPairs(feeds)
    /\ \A i, j \in DOMAIN items : PairOf(items[i]) = PairOf(items[j]) => i = j
    /\ \A i \in DOMAIN items : items[i].symbol = guess_symbol(items[i].title)
\* the threads that a feed answers with this step, and the same threads after it
AtFeed == {th \in workers \ workers' : plugin = "news_ticker" /\ th.phase = "fetching"}
\* the result that the UI thread is merging with this step
Merging == IF news.slot.busy THEN news.slot.fresh
           ELSE IF queue # <<>> THEN Head(queue).payload ELSE <<>>
After(th) == {w \in workers' \ workers : w.cycle = th.cycle}

(***************************************************************************)
(* C32  A feed that raises does not end the cycle: the thread emits one    *)
(* "Feed error" status at each feed that raises, and nothing at a feed     *)
(* that answers, and goes on to the next feed; after the last feed it      *)
(* holds each (title, link) pair that _fetch_feed takes from the feeds     *)
(* that answered (from their first 60 entries when feedparser reads them)  *)
(* once, with its symbol; it gives each entry with a symbol the price of   *)
(* the cache, emits one result with these entries and then one "Updated"   *)
(* status; once the result is delivered every one of its pairs has its     *)
(* item in the ticker.                                                     *)
(***************************************************************************)
C32_FeedFailuresIsolated ==
    [][(plugin = "news_ticker") =>
       /\ \A th \in AtFeed :
             /\ queue' = IF th.job.feeds[th.job.read + 1].raised
                         THEN Append(queue, Signal("statusSig", "Feed error", th.cycle))
                         ELSE queue
             /\ After(th) # {}
             /\ \A w \in After(th) :
                   /\ w.phase = IF th.job.read + 1 < Len(th.job.feeds) THEN "fetching" ELSE "timing"
                   /\ w.job.read = th.job.read + 1
                   /\ w.job.feeds = th.job.feeds
       /\ \A th \in Timing :
             /\ queue' = queue
             /\ After(th) # {}
             /\ \A w \in After(th) :
                   /\ w.phase = "gating"
                   /\ w.job.feeds = th.job.feeds
                   /\ HoldsOnce(w.job.items, th.job.feeds)
       /\ \A th \in Gating :
             /\ queue' = queue
             /\ \A w \in After(th) :
                   /\ w.phase \in {"enriching", "pricing", "emitting"}
                   /\ w.job.items = th.job.items /\ w.job.feeds = th.job.feeds
       /\ \A th \in Pricing :
             /\ queue' = queue
             /\ \A w \in After(th) :
                   /\ w.job.priced \in Unpriced(th.job)
                   /\ \A i \in Unpriced(th.job) : w.job.priced <= i
                   /\ PricedFrom(w.job.items[w.job.priced], news._prices)
                   /\ \A i \in DOMAIN th.job.items \ {w.job.priced} : w.job.items[i] = th.job.items[i]
                   /\ DOMAIN w.job.items = DOMAIN th.job.items
                   /\ PairOf(w.job.items[w.job.priced]) = PairOf(th.job.items[w.job.priced])
                   /\ w.job.items[w.job.priced].symbol = th.job.items[w.job.priced].symbol
                   /\ w.job.feeds = th.job.feeds
       /\ \A th \in Ending :
             /\ th.phase = "emitting" =>
                   /\ Unpriced(th.job) = {}
                   /\ Emitted = {th.job.items}
                   /\ Len(queue') = Len(queue) + 1
                   /\ HoldsOnce(th.job.items, th.job.feeds)
                   /\ \A w \in After(th) : w.phase = "reporting"
             /\ th.phase = "reporting" =>
                   /\ queue' = Append(queue, Signal("statusSig", "Updated", th.cycle))
                   /\ After(th) = {}
       /\ (event'.name = "deliver" /\ event'.sig = "itemsSig") =>
             \A k \in DOMAIN Merging :
                Cardinality({i \in DOMAIN news'._items :
                                PairOf(news'._items[i]) = PairOf(Merging[k])}) = 1]_vars

\* the result of a cycle whose second feed raised, after one that answered
\* and before another, is delivered after its "Feed error": the entries of
\* both feeds have their items, and the "Updated" of the cycle is still to
\* come
C32_Witness ==
    /\ plugin = "news_ticker" /\ Delivered("itemsSig")
    /\ started = 1
    /\ Len(history.fed[1]) = 3 /\ history.fed[1][2].raised
    /\ news._status = "Feed error"
    /\ [i \in DOMAIN news._items |-> PairOf(news._items[i])]
          = <<HeadlinePair, FillerPair, <<Echo.title, Echo.link>>>>
    /\ queue = <<Signal("statusSig", "Updated", 1)>>

(***************************************************************************)
(* What the claim about the Winner / Loser counter speaks about            *)
(***************************************************************************)
\* the rows of a ticker in the dataset handed last, and those of them that
\* have an open and a close
BarsOf(sym) == Get(request.data_by_symbol, sym, <<>>)
Complete(sym) == {i \in DOMAIN BarsOf(sym) : BarsOf(sym)[i].open # Null /\ BarsOf(sym)[i].close # Null}
Winners(sym) == Cardinality({i \in Complete(sym) : BarsOf(sym)[i].close > BarsOf(sym)[i].open})
Losers(sym) == Cardinality({i \in Complete(sym) : BarsOf(sym)[i].close < BarsOf(sym)[i].open})
Unchanged(sym) == Cardinality({i \in Complete(sym) : BarsOf(sym)[i].close = BarsOf(sym)[i].open})
Counted(sym) == Winners(sym) + Losers(sym) + Unchanged(sym)
\* the sum of a column over the tickers handed last
Column(sym, column) ==
    CASE column = "Total" -> Counted(sym)
      [] column = "Winners" -> Winners(sym)
      [] column = "Losers" -> Losers(sym)
      [] column = "Unchanged" -> Unchanged(sym)
RECURSIVE ColumnSum(_, _)
ColumnSum(column, syms) ==
    IF syms = <<>> THEN 0 ELSE Column(Head(syms), column) + ColumnSum(column, Tail(syms))

(***************************************************************************)
(* C33  Each on_data call of the counter is a full replacement: after      *)
(* on_data(D, T) the table has one row per entry of T, in the order of T,  *)
(* with total = winners + losers + unchanged over the rows that D has for  *)
(* the ticker; the totals line shows the column sums; and the widget is    *)
(* the one a new counter gets from (D, T), whatever it held before, and    *)
(* the same call again leaves it as it is.                                 *)
(***************************************************************************)
C33_OnDataReplacesEverything ==
    reply.done =>
        LET c == reply.result
            T == request.tickers
        IN  /\ Len(c.table) = Len(T)
            /\ \A i \in DOMAIN T :
                  c.table[i] = <<T[i], ToString(Counted(T[i])), ToString(Winners(T[i])),
                                 ToString(Losers(T[i])), ToString(Unchanged(T[i]))>>
            /\ c.totals_line = <<ToString(ColumnSum("Total", T)), ToString(ColumnSum("Winners", T)),
                                 ToString(ColumnSum("Losers", T)), ToString(ColumnSum("Unchanged", T))>>
            /\ c = winnerloser_on_data(NewCounter, request.data_by_symbol, T)
            /\ winnerloser_on_data(c, request.data_by_symbol, T) = c

\* a counter that showed other rows is handed a dataset with a ticker it has
\* no rows for and one with rows that lack an open or a close
C33_Witness ==
    /\ reply.done
    /\ request.call > 1
    /\ request.before.table # <<>>
    /\ request.before # reply.result
    /\ request.tickers = <<"C", "B">>
    /\ "B" \in DOMAIN request.data_by_symbol
    /\ Cardinality(Complete("B")) < Len(BarsOf("B"))
    /\ reply.result.table = <<<<"C", "0", "0", "0", "0">>, <<"B", "2", "1", "0", "1">>>>

(***************************************************************************)
(* C34  In every reachable state the ids that have an active instance are  *)
(* the ids of enabled_modules in the settings: after the start, after any  *)
(* toggles, also when a constructor or an on_enable raises and when a      *)
(* persisted id has no descriptor.                                         *)
(***************************************************************************)
C34_ActiveEqualsEnabled == Active = Enabled

\* what does hold of the two sets: an active instance is of an enabled id
\* that has a descriptor
C34_ActiveWithinEnabled == Active \subseteq Enabled \cap DOMAIN module_specs

(***************************************************************************)
(* What the claim about the order of the callbacks speaks about            *)
(***************************************************************************)
\* the positions of the calls of a handler that are a callback of an id
At(log, cb, id) == {i \in DOMAIN log : log[i].cb = cb /\ log[i].id = id}
\* the handler that ran last left the instance of id with an on_enable that
\* raised, or released it
EnableRaised(id) == \E i \in At(calls, "on_enable", id) : calls[i].raised
Released(id) == At(calls, "on_disable", id) # {}
\* the calls of a handler to the instances it constructs are in order:
\* on_enable returns before on_data, and nothing follows on_disable
OrderedWithin(log) ==
    \A id \in KnownIds :
        /\ Cardinality(At(log, "on_disable", id)) <= 1
        /\ \A i \in At(log, "__init__", id), k \in At(log, "on_data", id) :
              i < k => \E j \in At(log, "on_enable", id) : i < j /\ j < k /\ ~log[j].raised
        /\ \A i \in At(log, "on_disable", id), k \in At(log, "on_data", id) \cup At(log, "on_enable", id) :
              i < k => \E j \in At(log, "__init__", id) : i < j /\ j < k
\* the instance the handler before this one left is given no callback, or no
\* on_data, by this one, which made no new instance of the id
Untouched(id) ==
    At(calls', "__init__", id) = {} =>
        At(calls', "on_data", id) \cup At(calls', "on_disable", id) \cup At(calls', "on_enable", id) = {}
GivenNoData(id) == At(calls', "__init__", id) = {} => At(calls', "on_data", id) = {}

(***************************************************************************)
(* C35  The callbacks of one instance are ordered: on_enable returns       *)
(* before the first on_data, on_disable is called at most once, and no     *)
(* on_data goes to an instance after its on_disable or to an instance      *)
(* whose on_enable raised.                                                 *)
(***************************************************************************)
C35_CallbacksOrdered ==
    [][/\ OrderedWithin(calls')
       /\ \A id \in KnownIds : Released(id) => Untouched(id)
       /\ \A id \in KnownIds : EnableRaised(id) => GivenNoData(id)]_vars

\* C35 without its last case: what holds of the instances whose on_enable
\* returned
C35_CallbacksOrderedAfterEnableReturned ==
    [][/\ OrderedWithin(calls')
       /\ \A id \in KnownIds : Released(id) => Untouched(id)]_vars

(***************************************************************************)
(* What the claim about the end of a LiveTracker cycle speaks about        *)
(***************************************************************************)
\* the GETs of one _safe_chart_json call: max(1, retries) rounds of a GET and
\* its repeat on a 401
AttemptsPerUrl == 4
\* the threads of the tracker that end with this step, and what a thread
\* posts with it
TrackerEnding == {th \in workers \ workers' : plugin = "live_price_tracker" /\ th.phase = "fetching"}
TrackerReporting == {th \in workers \ workers' : plugin = "live_price_tracker" /\ th.phase = "reporting"}
Posted == SubSeq(queue', Len(queue) + 1, Len(queue'))
Results(signals, cycle) ==
    {k \in DOMAIN signals : signals[k].sig = "pricesSig" /\ signals[k].cycle = cycle}
RefreshErrors(signals, cycle) ==
    {k \in DOMAIN signals : /\ signals[k].sig = "statusSig" /\ signals[k].cycle = cycle
                            /\ signals[k].payload = "Refresh error"}
\* the cycle is started and its thread has not ended
InFlight(cycle) == plugin = "live_price_tracker" /\ \E th \in workers : th.cycle = cycle
\* the answers the provider can give to the symbols of a thread
AnswersTo(job) ==
    {http \in [Range(job) -> UNION {TrackerAnswers(sym) : sym \in Range(job)}] :
        \A sym \in Range(job) : http[sym] \in TrackerAnswers(sym)}

(***************************************************************************)
(* C36  Every LiveTracker cycle that is started ends: its thread issues no *)
(* more than a fixed number of GETs for a symbol whatever the provider     *)
(* answers, and with the step that ends its fetch posts either one         *)
(* pricesSig result or one "Refresh error" status, never none and never    *)
(* both; the status it posts after a result is never a "Refresh error".    *)
(***************************************************************************)
C36_CycleEndsWithOneOutcome ==
    /\ [][/\ \A th \in TrackerEnding :
             /\ Cardinality(Results(Posted, th.cycle)) + Cardinality(RefreshErrors(Posted, th.cycle)) = 1
             /\ \A http \in AnswersTo(th.job), sym \in Range(th.job) :
                   LET gets == fetch_prices_combo(th.job, http, Midnight).gets
                   IN  Count(gets, <<sym, "1d">>) + Count(gets, <<sym, "1m">>) <= 2 * AttemptsPerUrl
          /\ \A w \in TrackerReporting :
                /\ Results(Posted, w.cycle) = {} /\ RefreshErrors(Posted, w.cycle) = {}
                /\ Len(Posted) = 1]_vars
    /\ \A cycle \in 1..MaxCycles : InFlight(cycle) ~> ~InFlight(cycle)

\* every thread has ended: one cycle with an error and one with a result,
\* which holds the price that the provider gave after three answers with
\* status 401 to the daily chart and four to the 1-minute chart
C36_Witness ==
    /\ plugin = "live_price_tracker"
    /\ workers = {}
    /\ event.name \in {"emit", "finish"}
    /\ \E i, j \in DOMAIN queue :
          /\ queue[i].sig = "pricesSig"
          /\ "BTC-USD" \in DOMAIN queue[i].payload
          /\ queue[i].payload["BTC-USD"].price = Some(20500)
          /\ queue[j].sig = "statusSig" /\ queue[j].payload = "Refresh error"
          /\ queue[i].cycle # queue[j].cycle
          /\ Results(queue, queue[j].cycle) = {}
          /\ RefreshErrors(queue, queue[i].cycle) = {}

\* the event loop is taking a result of the tracker to _merge_prices_ui
DeliveringPrices ==
    /\ plugin = "live_price_tracker"
    /\ queue # <<>> /\ Head(queue).sig = "pricesSig"
    /\ queue' = Tail(queue)
    /\ event' = Event("deliver", "pricesSig", Head(queue).cycle)
\* the snapshot of s is after the step what it was before it, or as absent
KeepsSnapshot(s) ==
    IF s \in DOMAIN tracker._last
    THEN s \in DOMAIN tracker'._last /\ tracker'._last[s] = tracker._last[s]
    ELSE s \notin DOMAIN tracker'._last

(***************************************************************************)
(* C37  A LiveTracker delivery writes only snapshots of symbols tracked at *)
(* delivery time: the entry of a symbol of the result that is no longer in *)
(* _symbols is not written to _last, the symbols absent from the result    *)
(* keep the snapshot they had, and an empty result changes nothing.        *)
(***************************************************************************)
C37_DeliveryWritesTrackedOnly ==
    [][DeliveringPrices =>
          LET fresh == Head(queue).payload
          IN  /\ \A s \in (DOMAIN fresh \cup DOMAIN tracker._last \cup DOMAIN tracker'._last) \ Tracked :
                    KeepsSnapshot(s)
              /\ \A s \in (DOMAIN tracker._last \cup DOMAIN tracker'._last) \ DOMAIN fresh :
                    KeepsSnapshot(s)
              /\ fresh = EmptyDict => tracker' = tracker]_vars

\* the result of the first cycle, read for AAPL, was delivered after on_data
\* had replaced the symbols, and left no snapshot
C37_Witness ==
    /\ plugin = "live_price_tracker"
    /\ event = Event("deliver", "pricesSig", 1)
    /\ "AAPL" \in DOMAIN history.arrived
    /\ Tracked = {"BTC-USD"}
    /\ tracker._last = EmptyDict

\* a delivery left the snapshot of a symbol that its result did not hold
C37_WitnessAbsentKept ==
    /\ plugin = "live_price_tracker"
    /\ event.name = "deliver" /\ event.sig = "pricesSig"
    /\ \E s \in DOMAIN tracker._last :
          /\ s \in DOMAIN history.noted /\ history.noted[s].cycle < event.cycle
          /\ s \in DOMAIN history.arrived /\ history.arrived[s] = tracker._last[s]
          /\ \E o \in DOMAIN tracker._last \ {s} :
                o \in DOMAIN history.noted /\ history.noted[o].cycle = event.cycle

\* the headlines of s that the cycle that detected s first carried
FirstCarried(items, s) ==
    {i \in DOMAIN items :
        items[i].symbol = s /\ <<items[i].title, items[i].link>> \in history.noted[s].pairs}
\* the symbols detected first while the TTL gate was shut
Gated == {s \in DOMAIN history.noted : history.noted[s].gated}

(***************************************************************************)
(* C38  The TTL gate is one timestamp for the whole cache: a headline      *)
(* whose symbol is first detected within 15 seconds of the last successful *)
(* lookup is admitted without a price, and stays without a price in every  *)
(* later cycle, even after the cache has obtained a quote for the symbol.  *)
(***************************************************************************)
C38_GatedHeadlineStaysUnpriced ==
    \A s \in Gated :
        /\ \A i \in FirstCarried(news._items, s) : news._items[i].price = Unavailable
        /\ \A i \in FirstCarried(news.text, s) : news.text[i].price = Unavailable


====
